---- MODULE Spec2Model ----
(***************************************************************************)
(* B+ tree storage engine of db_from_scratch (package main with pkg/types  *)
(* and pkg/constants): pager, node accessors, find, insert with leaf and   *)
(* internal splits, root creation, select, close and reopen.               *)
(*                                                                         *)
(* A page is modelled by the 32-bit words the engine reads and writes.     *)
(* uint32 values are kept as their 32-bit pattern: TLC integers are 32-bit *)
(* signed, so math.MaxUint32 is the pattern -1, 0-1 wraps to the same      *)
(* pattern, and order comparisons that can meet such a value use the       *)
(* unsigned order ULess.                                                   *)
(***************************************************************************)
EXTENDS Integers, Sequences, FiniteSets, TLC

\* ------------------------------------------------------------------------
\* Layout constants (pkg/constants/constants.go)
\* ------------------------------------------------------------------------
PageSize == 4096
TableMaxPages == 100
InvalidPageNum == -1
RowSize == 291
LeafNodeHeaderSize == 14
LeafNodeCellSize == 4 + RowSize
LeafNodeSpaceForcells == PageSize - LeafNodeHeaderSize
LeafNodeMaxCells == LeafNodeSpaceForcells \div LeafNodeCellSize
LeafNodeRightSplitCount == (LeafNodeMaxCells + 1) \div 2
LeafNodeLeftSplitCount == (LeafNodeMaxCells + 1) - LeafNodeRightSplitCount
InternalNodeMaxCells == 3
NodeInternal == 0
NodeLeaf == 1
UsernameSize == 32
EmailSize == 255

\* ------------------------------------------------------------------------
\* Bounds of the exploration
\* ------------------------------------------------------------------------
\* keys are residues modulo KeyModulus; a workload inserts Mult*(i+1) mod KeyModulus
KeyModulus == 163
\* number of planned inserts of a workload
MaxSteps == 161
\* inserts allowed in a session that reopened the file
MaxPostInserts == 1
\* ".exit" is issued at steps that are multiples of ClosePeriod
ClosePeriod == 7
\* sessions (dbOpen calls) per behaviour
MaxSessions == 2
\* repeated-key inserts per behaviour, the last step at which one may be
\* issued, and the planned inserts that may follow it
MaxRepeats == 1
RepeatHorizon == 16
RepeatTail == 2
\* executeDelete calls per behaviour
MaxDeletes == 2
\* the first delete of a behaviour is issued after at most DeleteHorizon
\* inserts or after a multiple of DeletePeriod inserts
DeleteHorizon == 2
DeletePeriod == 7
\* input lines per behaviour; the first line of a behaviour is read after at
\* most LineHorizon inserts or after a multiple of LinePeriod inserts
MaxLines == 2
LineHorizon == 2
LinePeriod == 40
\* multipliers of the workloads: ascending, descending and four scattered orders
Mults == {1, 11, 70, 108, 112, KeyModulus - 1}
KeyAt(m, i) == (m * (i + 1)) % KeyModulus

\* unsigned order on 32-bit patterns
ULess(a, b) == IF (a < 0) = (b < 0) THEN a < b ELSE b < 0
ULessEq(a, b) == a = b \/ ULess(a, b)

\* ------------------------------------------------------------------------
\* Page: types.Page, a 4096-byte buffer, as the words the engine uses.
\*   type   byte 0            root   byte 1         parent bytes 2..5
\*   num    bytes 6..9   (leaf num_cells / internal num_keys)
\*   link   bytes 10..13 (leaf next_leaf / internal right_child)
\*   lk[i], lv[i]  key and row id of leaf cell i (bytes 14+295i ..)
\*   lu[i]         bytes 0..23 of the username of leaf cell i, i in 1..12, as
\*                 the pair of word triples they would be as internal cells
\*   ic[j], ik[j]  child and key of internal cell j, j in 1..3
\* Internal cell 0 is bytes 14..21, the same bytes as the key and the row id
\* of leaf cell 0, so it is lk[0] (child) and lv[0] (key).  Internal cells
\* 1..3 are bytes 22..45, the first 24 bytes of the username of leaf cell 0.
\* ------------------------------------------------------------------------
LeafCells == 0 .. (LeafNodeMaxCells - 1)
InternalCells == 1 .. InternalNodeMaxCells

NoWords == <<[j \in InternalCells |-> 0], [j \in InternalCells |-> 0]>>

ZeroPage ==
  [type |-> 0, root |-> 0, parent |-> 0, num |-> 0, link |-> 0,
   lk |-> [i \in LeafCells |-> 0], lv |-> [i \in LeafCells |-> 0],
   lu |-> [i \in LeafCells \ {0} |-> NoWords],
   ic |-> [j \in InternalCells |-> 0], ik |-> [j \in InternalCells |-> 0]]

\* types.Row: [Id, Username]; Username is the sequence of the bytes copied
\* into the 32-byte array (the NUL padding left out).  The email is left
\* out: its bytes are never read as a field of a node.
Row(id, username) == [Id |-> id, Username |-> username]

\* byte k and little-endian word w of the username array
UsernameByte(username, k) == IF k < Len(username) THEN username[k + 1] ELSE 0
UsernameWord(username, w) ==
  UsernameByte(username, 4 * w) + 256 * UsernameByte(username, 4 * w + 1)
    + 65536 * UsernameByte(username, 4 * w + 2)
    + 16777216 * UsernameByte(username, 4 * w + 3)

\* serializeRow: the row as stored in a cell; the id and bytes 0..23 of the
\* username are kept, laid out as the internal cells 1..3 that share the
\* bytes when the row is in cell 0
serializeRow(r) ==
  [id |-> r.Id,
   u |-> <<[j \in InternalCells |-> UsernameWord(r.Username, 2 * (j - 1))],
           [j \in InternalCells |-> UsernameWord(r.Username, 2 * j - 1)]>>]

\* the decimal digits of n, as bytes
RECURSIVE Digits(_)
Digits(n) == IF n < 10 THEN <<48 + n>> ELSE Append(Digits(n \div 10), 48 + (n % 10))

\* the rows of the workloads: the tests insert "user<id>"
WorkloadRow(id) == Row(id, <<117, 115, 101, 114>> \o Digits(id))

VARIABLES
  file,      \* backing file: sequence of pages, file[n+1] is page n
  pager,     \* Pager: [pages: loaded page number -> Page, numPages, fileLength]
  status,    \* "open", "closed" (after .exit) or "exited" (fatal)
  mult,      \* workload: multiplier of the key sequence
  step,      \* number of planned inserts issued
  ins,       \* keys whose executeInsert returned nil
  accepted,  \* number of executeInsert calls that returned nil
  lastOp,    \* last statement or command
  lastErr,   \* its error ("none" when it succeeded)
  out,       \* rows emitted by the last select
  lastKey,   \* key of the last insert statement
  wasStored, \* whether that key was stored in a leaf when the statement began
  distinct,  \* all successful inserts so far had pairwise distinct keys
  preClose,  \* rows a select emitted just before the last dbClose
  sessions,  \* number of dbOpen calls
  postIns,   \* inserts issued since the last dbOpen of a reopened file
  repeats,   \* repeated-key inserts issued
  tail,      \* planned inserts issued after a repeated-key insert
  deletes,   \* executeDelete calls issued
  delBefore, \* rows a select would have emitted just before the last delete of a
             \* stored key (<<-1>> otherwise)
  delAfter,  \* rows a select would emit just after the last delete that
             \* returned nil (<<-1>> otherwise)
  line,      \* last input line the shell read, as a sequence of characters
  lines,     \* input lines read by the shell loop
  selectCursor, \* Cursor of the executeSelect in progress: [pageNum, cellNum, endOfTable]
  fileTail   \* bytes of the backing file after its last whole page

\* what the delete calls and the shell's input lines add to the state
delVars == <<deletes, delBefore, delAfter>>
shellVars == <<line, lines>>

vars == <<file, pager, status, mult, step, ins, accepted, lastOp, lastErr, out,
          lastKey, wasStored, distinct, preClose, sessions, postIns, repeats, tail,
          delVars, shellVars, selectCursor, fileTail>>

\* ------------------------------------------------------------------------
\* Machine state threaded through one statement:
\*   [pages, numPages, fileLength, fatal, keyWrites]; fatal # "none" once
\*   the process has terminated (log.Fatal, os.Exit or a runtime panic);
\*   keyWrites notes the updateInternalNodeKey calls of the statement.
\* ------------------------------------------------------------------------
Fail(s, why) == IF s.fatal # "none" THEN s ELSE [s EXCEPT !.fatal = why]
Ok(s) == s.fatal = "none"
Ret(s, v) == [s |-> s, v |-> v]

\* getPage: bounds check, load on miss (from the file when the page lies in
\* it, else zeroed), grow numPages.  The message of the bounds check prints
\* the page number: "page out of bounds" is the one for the first unused page
\* (the table is full), "stray page out of bounds" the one for any other.
getPage(s, pageNum) ==
  IF ~Ok(s) THEN s
  ELSE IF ~ULess(pageNum, TableMaxPages)
       THEN Fail(s, IF pageNum = s.numPages THEN "page out of bounds"
                    ELSE "stray page out of bounds")
  ELSE IF pageNum \in DOMAIN s.pages THEN s
  ELSE LET filePages == s.fileLength \div PageSize
           page == IF pageNum < filePages THEN file[pageNum + 1] ELSE ZeroPage
       IN [s EXCEPT !.pages = (pageNum :> page) @@ s.pages,
                    !.numPages = IF pageNum >= s.numPages THEN pageNum + 1 ELSE @]

\* the buffer getPage returned (ZeroPage stands in after a fatal)
Node(s, pageNum) == IF pageNum \in DOMAIN s.pages THEN s.pages[pageNum] ELSE ZeroPage

\* write one page buffer
SetNode(s, pageNum, node) ==
  IF Ok(s) /\ pageNum \in DOMAIN s.pages THEN [s EXCEPT !.pages[pageNum] = node] ELSE s

\* ---- node accessors ----------------------------------------------------
getNodeType(node) == node.type
isNodeRoot(node) == node.root = 1
leafNodeNumCells(node) == node.num
leafNodeNextLeaf(node) == node.link
internalNodeNumKeys(node) == node.num
internalNodeRightChild(node) == node.link
nodeParent(node) == node.parent

\* leafNodeCell: slice bounds of cell cellNum; a cell outside the page panics
leafNodeCellInPage(cellNum) == cellNum >= 0 /\ cellNum < LeafNodeMaxCells
leafNodeKey(node, cellNum) == node.lk[cellNum]

\* the whole leaf cell cellNum: key, row id and username words.  The
\* username words of cell 0 are the bytes of internal cells 1..3; those of
\* the other cells are the row's own.
leafNodeCell(node, cellNum) ==
  IF cellNum = 0
  THEN [key |-> node.lk[0], id |-> node.lv[0], u |-> <<node.ic, node.ik>>]
  ELSE [key |-> node.lk[cellNum], id |-> node.lv[cellNum],
        u |-> node.lu[cellNum]]

\* copy(leafNodeCell(node, cellNum), cell)
putLeafCell(node, cellNum, cell) ==
  IF cellNum = 0
  THEN [node EXCEPT !.lk[0] = cell.key, !.lv[0] = cell.id,
                    !.ic = cell.u[1], !.ik = cell.u[2]]
  ELSE [node EXCEPT !.lk[cellNum] = cell.key, !.lv[cellNum] = cell.id,
                    !.lu[cellNum] = cell.u]

\* the cell made of a key and a serialized row
newLeafCell(key, row) ==
  [key |-> key, id |-> row.id,
   u |-> row.u]

\* internal cell cellNum as stored, without the checks of internalNodeChild
internalCellChild(node, cellNum) == IF cellNum = 0 THEN node.lk[0] ELSE node.ic[cellNum]
internalNodeKey(node, keyNum) == IF keyNum = 0 THEN node.lv[0] ELSE node.ik[keyNum]
internalCellInPage(cellNum) == cellNum >= 0 /\ cellNum <= InternalNodeMaxCells

putInternalChild(node, cellNum, child) ==
  IF cellNum = 0 THEN [node EXCEPT !.lk[0] = child] ELSE [node EXCEPT !.ic[cellNum] = child]
putInternalKey(node, keyNum, key) ==
  IF keyNum = 0 THEN [node EXCEPT !.lv[0] = key] ELSE [node EXCEPT !.ik[keyNum] = key]

initializeLeafNode(node) == [node EXCEPT !.type = NodeLeaf, !.root = 0, !.num = 0, !.link = 0]
initializeInternalNode(node) ==
  [node EXCEPT !.type = NodeInternal, !.root = 0, !.num = 0, !.link = InvalidPageNum]


\* internalNodeChild: the child slot childNum of an internal node, with its
\* checks.  internalNodeChildFatal is the reason it terminates the process.
internalNodeChildFatal(node, childNum) ==
  LET numKeys == internalNodeNumKeys(node) IN
  IF ULess(numKeys, childNum) THEN "child index beyond num_keys"
  ELSE IF childNum = numKeys
       THEN (IF internalNodeRightChild(node) = InvalidPageNum
             THEN "invalid right child" ELSE "none")
       ELSE (IF internalCellChild(node, childNum) = InvalidPageNum
             THEN "invalid child" ELSE "none")

internalNodeChild(node, childNum) ==
  IF childNum = internalNodeNumKeys(node) THEN internalNodeRightChild(node)
  ELSE internalCellChild(node, childNum)

\* binary.LittleEndian.PutUint32(internalNodeChild(node, childNum), v)
putInternalNodeChild(node, childNum, v) ==
  IF childNum = internalNodeNumKeys(node) THEN [node EXCEPT !.link = v]
  ELSE putInternalChild(node, childNum, v)

\* ---- find ---------------------------------------------------------------
RECURSIVE internalSearchAbove(_, _, _, _)
RECURSIVE internalSearch(_, _, _, _)

\* the search with keyToRight > key as its test
internalSearchAbove(node, key, minIdx, maxIdx) ==
  IF minIdx = maxIdx THEN minIdx
  ELSE LET midIdx == ((maxIdx - minIdx) \div 2) + minIdx
           keyToRight == internalNodeKey(node, midIdx)
       IN IF ULess(key, keyToRight)
          THEN internalSearchAbove(node, key, minIdx, midIdx)
          ELSE internalSearchAbove(node, key, midIdx + 1, maxIdx)

internalSearch(node, key, minIdx, maxIdx) ==
  IF minIdx = maxIdx THEN minIdx
  ELSE LET midIdx == ((maxIdx - minIdx) \div 2) + minIdx
           keyToRight == internalNodeKey(node, midIdx)
       IN IF ULessEq(key, keyToRight)
          THEN internalSearch(node, key, minIdx, midIdx)
          ELSE internalSearch(node, key, midIdx + 1, maxIdx)

\* index of the child which should contain the key
internalNodeFindChild(node, key) == internalSearch(node, key, 0, internalNodeNumKeys(node))

RECURSIVE leafSearchNoMatch(_, _, _, _)
RECURSIVE leafSearch(_, _, _, _)

\* the search without the return on key == keyAtIdx
leafSearchNoMatch(node, key, minIdx, onePastMaxIdx) ==
  IF onePastMaxIdx = minIdx THEN minIdx
  ELSE LET midIdx == ((onePastMaxIdx - minIdx) \div 2) + minIdx
           keyAtIdx == leafNodeKey(node, midIdx)
       IN IF ULess(key, keyAtIdx)
          THEN leafSearchNoMatch(node, key, minIdx, midIdx)
          ELSE leafSearchNoMatch(node, key, midIdx + 1, onePastMaxIdx)

leafSearch(node, key, minIdx, onePastMaxIdx) ==
  IF onePastMaxIdx = minIdx THEN minIdx
  ELSE LET midIdx == ((onePastMaxIdx - minIdx) \div 2) + minIdx
           keyAtIdx == leafNodeKey(node, midIdx)
       IN IF key = keyAtIdx THEN midIdx
          ELSE IF ULess(key, keyAtIdx)
               THEN leafSearch(node, key, minIdx, midIdx)
               ELSE leafSearch(node, key, midIdx + 1, onePastMaxIdx)

Cursor(pageNum, cellNum) == [pageNum |-> pageNum, cellNum |-> cellNum, endOfTable |-> FALSE]

leafNodeFind(s, pageNum, key) ==
  LET s1 == getPage(s, pageNum)
      node == Node(s1, pageNum)
  IN IF ~Ok(s1) THEN Ret(s1, Cursor(pageNum, 0))
     ELSE Ret(s1, Cursor(pageNum, leafSearch(node, key, 0, leafNodeNumCells(node))))

\* internalNodeFind; fuel bounds the descent (a descent that never reaches a
\* leaf exhausts the goroutine stack)
RECURSIVE internalNodeFind(_, _, _, _)
internalNodeFind(s, pageNum, key, fuel) ==
  LET s1 == getPage(s, pageNum)
      node == Node(s1, pageNum)
      childIdx == internalNodeFindChild(node, key)
      why == internalNodeChildFatal(node, childIdx)
      childNum == internalNodeChild(node, childIdx)
      s2 == getPage(s1, childNum)
  IN IF ~Ok(s1) THEN Ret(s1, Cursor(pageNum, 0))
     ELSE IF fuel = 0 THEN Ret(Fail(s1, "stack overflow"), Cursor(pageNum, 0))
     ELSE IF why # "none" THEN Ret(Fail(s1, why), Cursor(pageNum, 0))
     ELSE IF ~Ok(s2) THEN Ret(s2, Cursor(pageNum, 0))
     ELSE IF getNodeType(Node(s2, childNum)) = NodeLeaf THEN leafNodeFind(s2, childNum, key)
     ELSE internalNodeFind(s2, childNum, key, fuel - 1)

tableFind(s, key) ==
  LET rootPageNum == 0
      s1 == getPage(s, rootPageNum)
  IN IF ~Ok(s1) THEN Ret(s1, Cursor(rootPageNum, 0))
     ELSE IF getNodeType(Node(s1, rootPageNum)) = NodeLeaf
          THEN leafNodeFind(s1, rootPageNum, key)
          ELSE internalNodeFind(s1, rootPageNum, key, TableMaxPages)

\* getNodeMaxKey of the node on page pageNum: a leaf's last key, else the
\* maximum of the right child.  An empty leaf reads cell 0xFFFFFFFF, a slice
\* outside the page.
RECURSIVE getNodeMaxKey(_, _, _)
getNodeMaxKey(s, pageNum, fuel) ==
  LET node == Node(s, pageNum) IN
  IF ~Ok(s) THEN Ret(s, 0)
  ELSE IF getNodeType(node) = NodeLeaf
       THEN (IF leafNodeCellInPage(leafNodeNumCells(node) - 1)
             THEN Ret(s, leafNodeKey(node, leafNodeNumCells(node) - 1))
             ELSE Ret(Fail(s, "slice bounds out of range"), 0))
       ELSE IF fuel = 0 THEN Ret(Fail(s, "stack overflow"), 0)
       ELSE LET rightChildPageNum == internalNodeRightChild(node)
                s1 == getPage(s, rightChildPageNum)
            IN IF ~Ok(s1) THEN Ret(s1, 0)
               ELSE getNodeMaxKey(s1, rightChildPageNum, fuel - 1)

\* getUnusedPageNum
\* the page after the first unused one handed out
getUnusedPageNumSkipping(s) == s.numPages + 1

getUnusedPageNum(s) == s.numPages

\* updateInternalNodeKey on the node of page pageNum
\* (the call is noted in keyWrites: the page, oldKey, the index of the key
\* slot written and the node's num_keys at the call)
updateInternalNodeKey(s, pageNum, oldKey, newKey) ==
  LET node == Node(s, pageNum)
      oldChildIdx == internalNodeFindChild(node, oldKey)
      call == [pageNum |-> pageNum, oldKey |-> oldKey, index |-> oldChildIdx,
               numKeys |-> internalNodeNumKeys(node),
               slotKey |-> internalNodeKey(node, oldChildIdx)]
  IN IF ~Ok(s) THEN s
     ELSE [SetNode(s, pageNum, putInternalKey(node, oldChildIdx, newKey))
             EXCEPT !.keyWrites = @ \cup {call}]


\* set the parent pointer of the node on page pageNum
putNodeParent(s, pageNum, parentPageNum) ==
  SetNode(s, pageNum, [Node(s, pageNum) EXCEPT !.parent = parentPageNum])

\* ---- createNewRoot ------------------------------------------------------
\* loop of createNewRoot: children 0..numKeys-1 of the left child get the
\* left child's page as parent
RECURSIVE reparentChildren(_, _, _)
reparentChildren(s, leftChildPageNum, i) ==
  LET leftChild == Node(s, leftChildPageNum)
      why == internalNodeChildFatal(leftChild, i)
      childPageNum == internalNodeChild(leftChild, i)
  IN IF ~Ok(s) \/ ~(i < internalNodeNumKeys(leftChild)) THEN s
     ELSE IF why # "none" THEN Fail(s, why)
     ELSE reparentChildren(putNodeParent(getPage(s, childPageNum), childPageNum,
                                         leftChildPageNum),
                           leftChildPageNum, i + 1)

\* an internal root: initializeInternalNode of both children
createNewRootInitChildren(s, leftChildPageNum, rightChildPageNum) ==
  IF Ok(s) /\ getNodeType(Node(s, 0)) = NodeInternal
  THEN SetNode(SetNode(s, rightChildPageNum,
                       initializeInternalNode(Node(s, rightChildPageNum))),
               leftChildPageNum, initializeInternalNode(Node(s, leftChildPageNum)))
  ELSE s

\* copy(leftChild, root) alone: the copy of the old root keeps the is-root
\* flag
copyRootToLeftChildKeepingRootFlag(s, leftChildPageNum) ==
  SetNode(s, leftChildPageNum, Node(s, 0))

\* copy(leftChild, root); setNodeRoot(leftChild, false)
copyRootToLeftChild(s, leftChildPageNum) ==
  SetNode(s, leftChildPageNum, [Node(s, 0) EXCEPT !.root = 0])

\* an internal left child: its children and its right child point to it
createNewRootReparent(s, leftChildPageNum) ==
  LET reparented == reparentChildren(s, leftChildPageNum, 0)
      rcPageNum == internalNodeRightChild(Node(s, leftChildPageNum))
  IN IF ~Ok(s) \/ getNodeType(Node(s, leftChildPageNum)) # NodeInternal THEN s
     ELSE putNodeParent(getPage(reparented, rcPageNum), rcPageNum, leftChildPageNum)

\* the root becomes an internal node with one key; child 0 is the left child
createNewRootInit(s, leftChildPageNum) ==
  LET root == [initializeInternalNode(Node(s, 0)) EXCEPT !.root = 1, !.num = 1]
      why == internalNodeChildFatal(root, 0)
  IN IF ~Ok(s) THEN s
     ELSE IF why # "none" THEN Fail(s, why)
     ELSE SetNode(s, 0, putInternalNodeChild(root, 0, leftChildPageNum))

\* key 0 of the root and the two parent pointers alone: the root's right
\* child stays the invalid page
createNewRootKeyWithoutRightChild(leftChildMaxKey, leftChildPageNum, rightChildPageNum) ==
  LET s == leftChildMaxKey.s
      root == putInternalKey(Node(s, 0), 0, leftChildMaxKey.v)
  IN putNodeParent(putNodeParent(SetNode(s, 0, root), leftChildPageNum, 0),
                   rightChildPageNum, 0)

\* key 0 of the root, its right child, and the two parent pointers
createNewRootKey(leftChildMaxKey, leftChildPageNum, rightChildPageNum) ==
  LET s == leftChildMaxKey.s
      root == [putInternalKey(Node(s, 0), 0, leftChildMaxKey.v)
                 EXCEPT !.link = rightChildPageNum]
  IN putNodeParent(putNodeParent(SetNode(s, 0, root), leftChildPageNum, 0),
                   rightChildPageNum, 0)

\* createNewRoot once the three pages are held
createNewRootPages(s, leftChildPageNum, rightChildPageNum) ==
  createNewRootKey(
    getNodeMaxKey(
      createNewRootInit(
        createNewRootReparent(
          copyRootToLeftChild(
            createNewRootInitChildren(getPage(s, leftChildPageNum),
                                      leftChildPageNum, rightChildPageNum),
            leftChildPageNum),
          leftChildPageNum),
        leftChildPageNum),
      leftChildPageNum, TableMaxPages),
    leftChildPageNum, rightChildPageNum)

\* createNewRoot after root and right child are fetched
createNewRootLeft(s, rightChildPageNum) ==
  createNewRootPages(s, getUnusedPageNum(s), rightChildPageNum)

createNewRoot(s, rightChildPageNum) ==
  createNewRootLeft(getPage(getPage(s, 0), rightChildPageNum), rightChildPageNum)

\* ---- internal insert and split -----------------------------------------
\* "Make room for a new cell": cells index .. i-1 move up by one
RECURSIVE shiftInternalCells(_, _, _)
shiftInternalCells(node, i, index) ==
  IF ~(i > index) THEN node
  ELSE shiftInternalCells(
         putInternalKey(putInternalChild(node, i, internalCellChild(node, i - 1)),
                        i, internalNodeKey(node, i - 1)),
         i - 1, index)

RECURSIVE internalNodeInsert(_, _, _)
RECURSIVE internalNodeSplitAndInsert(_, _, _)
RECURSIVE moveUpperChildren(_, _, _, _)

\* internalNodeInsert(table, parentPageNum, childPageNum) followed by the
\* write of parentPageNum into the child's parent pointer
insertChildAndSetParent(s, parentPageNum, childPageNum) ==
  putNodeParent(internalNodeInsert(getPage(s, childPageNum), parentPageNum, childPageNum),
                childPageNum, parentPageNum)

\* PutUint32(oldNumKeys, oldNumKeysNum-1)
decrementNumKeys(s, oldPageNum) ==
  SetNode(s, oldPageNum,
          [Node(s, oldPageNum) EXCEPT !.num = (Node(s, oldPageNum)).num - 1])

\* loop of internalNodeSplitAndInsert: children i, i-1, .. above the middle
\* key move to the new node, num_keys of the old node drops by one each time
moveUpperChildren(s, oldPageNum, newPageNum, i) ==
  LET oldNode == Node(s, oldPageNum)
      why == internalNodeChildFatal(oldNode, i)
      curPageNum == internalNodeChild(oldNode, i)
  IN IF ~Ok(s) \/ ~(i > InternalNodeMaxCells \div 2) THEN s
     ELSE IF why # "none" THEN Fail(s, why)
     ELSE moveUpperChildren(
            decrementNumKeys(insertChildAndSetParent(s, newPageNum, curPageNum),
                             oldPageNum),
            oldPageNum, newPageNum, i - 1)

\* PutUint32(internalNodeRightChild(oldNode), InvalidPageNum)
clearRightChild(s, oldPageNum) ==
  SetNode(s, oldPageNum, [Node(s, oldPageNum) EXCEPT !.link = InvalidPageNum])

\* nothing after the transfer loop: the old node's right child stays the
\* invalid page
splitKeepInvalidRightChild(s, oldPageNum) == s

\* after the transfer loop: the old node's right child becomes the child of
\* its highest remaining cell; num_keys is left as it is
splitSetRightChild(s, oldPageNum) ==
  LET oldNode == Node(s, oldPageNum)
      oldNumKeysNum == internalNodeNumKeys(oldNode)
      why == internalNodeChildFatal(oldNode, oldNumKeysNum - 1)
  IN IF ~Ok(s) THEN s
     ELSE IF why # "none" THEN Fail(s, why)
     ELSE SetNode(s, oldPageNum,
                  [oldNode EXCEPT !.link = internalNodeChild(oldNode, oldNumKeysNum - 1)])

\* copy(nodeParent(newNode), nodeParent(oldNode))
copyNodeParent(s, newPageNum, oldPageNum) ==
  putNodeParent(s, newPageNum, nodeParent(Node(s, oldPageNum)))

\* the new node put into the old node, one level too low
splitInsertNewNodeBelow(s, l) ==
  copyNodeParent(internalNodeInsert(s, l.oldPageNum, l.newPageNum),
                 l.newPageNum, l.oldPageNum)

\* not splitting the root: the new node goes into the old node's parent
splitInsertNewNode(s, l) ==
  copyNodeParent(internalNodeInsert(s, nodeParent(Node(s, l.oldPageNum)), l.newPageNum),
                 l.newPageNum, l.oldPageNum)

\* updateInternalNodeKey(parent, oldMax, getNodeMaxKey(oldNode)) and the
\* insert into the grandparent; l holds the locals of the split
splitUpdateParent(newMax, l) ==
  LET updated == updateInternalNodeKey(newMax.s, l.parentPageNum, l.oldMax, newMax.v)
  IN IF ~Ok(newMax.s) THEN newMax.s
     ELSE IF l.splittingRoot THEN updated
     ELSE splitInsertNewNode(updated, l)

\* the incoming child goes to the node that covers its maximum
splitInsertChild(maxAfterSplit, l) ==
  LET destPageNum == IF ULess(l.childMax, maxAfterSplit.v) THEN l.oldPageNum
                     ELSE l.newPageNum
  IN IF ~Ok(maxAfterSplit.s) THEN maxAfterSplit.s
     ELSE splitUpdateParent(
            getNodeMaxKey(insertChildAndSetParent(maxAfterSplit.s, destPageNum,
                                                  l.childPageNum),
                          l.oldPageNum, TableMaxPages),
            l)

\* the right child and the upper children of the old node move to the new
\* node
splitTransfer(s, l) ==
  LET curPageNum == internalNodeRightChild(Node(s, l.oldPageNum))
  IN IF ~Ok(s) THEN s
     ELSE splitInsertChild(
            getNodeMaxKey(
              splitSetRightChild(
                moveUpperChildren(
                  clearRightChild(insertChildAndSetParent(s, l.newPageNum, curPageNum),
                                  l.oldPageNum),
                  l.oldPageNum, l.newPageNum, InternalNodeMaxCells - 1),
                l.oldPageNum),
              l.oldPageNum, TableMaxPages),
            l)

\* splitting the root, after createNewRoot: the old node is the new root's
\* left child
splitRootMoved(s, l) ==
  LET parent == Node(s, 0)
      why == internalNodeChildFatal(parent, 0)
      oldPageNum == internalNodeChild(parent, 0)
  IN IF ~Ok(s) THEN s
     ELSE IF why # "none" THEN Fail(s, why)
     ELSE splitTransfer(getPage(s, oldPageNum),
                        [l EXCEPT !.oldPageNum = oldPageNum, !.parentPageNum = 0])

\* not splitting the root: parent fetched, a fresh internal node on
\* newPageNum
splitNewNode(s, l) ==
  LET held == getPage(getPage(s, l.parentPageNum), l.newPageNum)
  IN SetNode(held, l.newPageNum, initializeInternalNode(Node(held, l.newPageNum)))

\* internalNodeSplitAndInsert from the declaration of splittingRoot on
splitBranch(childMax, parentPageNum, childPageNum, oldMax) ==
  LET s == childMax.s
      oldNode == Node(s, parentPageNum)
      l == [oldMax |-> oldMax, childMax |-> childMax.v,
            newPageNum |-> getUnusedPageNum(s), childPageNum |-> childPageNum,
            oldPageNum |-> parentPageNum, parentPageNum |-> nodeParent(oldNode),
            splittingRoot |-> isNodeRoot(oldNode)]
  IN IF ~Ok(s) THEN s
     ELSE IF l.splittingRoot THEN splitRootMoved(createNewRoot(s, l.newPageNum), l)
     ELSE splitTransfer(splitNewNode(s, l), l)

\* internalNodeSplitAndInsert after oldMax is known
splitChildMax(oldMax, parentPageNum, childPageNum) ==
  splitBranch(getNodeMaxKey(getPage(oldMax.s, childPageNum), childPageNum, TableMaxPages),
              parentPageNum, childPageNum, oldMax.v)

internalNodeSplitAndInsert(s, parentPageNum, childPageNum) ==
  splitChildMax(getNodeMaxKey(getPage(s, parentPageNum), parentPageNum, TableMaxPages),
                parentPageNum, childPageNum)

\* PutUint32(internalNodeNumKeys(parent), originalNumKeys+1)
incrementNumKeys(s, parentPageNum) ==
  SetNode(s, parentPageNum,
          [Node(s, parentPageNum) EXCEPT !.num = (Node(s, parentPageNum)).num + 1])

\* the insert that makes room at index whatever the two maxima are, and
\* never replaces the right child
internalNodeInsertCellNeverRight(rightMax, parentPageNum, childPageNum, childMaxKey, index, originalNumKeys) ==
  LET s == rightMax.s
      shifted == shiftInternalCells(Node(s, parentPageNum), originalNumKeys, index)
      whyShift == internalNodeChildFatal(shifted, index)
      placed == putInternalKey(putInternalNodeChild(shifted, index, childPageNum),
                               index, childMaxKey)
  IN IF ~Ok(s) THEN s
     ELSE IF whyShift # "none" THEN Fail(s, whyShift)
     ELSE SetNode(s, parentPageNum, placed)

\* internalNodeInsert once the maximum of the right child is known: replace
\* the right child, or make room for a new cell at index
internalNodeInsertCell(rightMax, parentPageNum, childPageNum, childMaxKey, index, originalNumKeys) ==
  LET s == rightMax.s
      parent == Node(s, parentPageNum)
      rightChildPageNum == internalNodeRightChild(parent)
      whyReplace == internalNodeChildFatal(parent, originalNumKeys)
      replaced == [putInternalKey(putInternalNodeChild(parent, originalNumKeys,
                                                       rightChildPageNum),
                                  originalNumKeys, rightMax.v)
                     EXCEPT !.link = childPageNum]
      shifted == shiftInternalCells(parent, originalNumKeys, index)
      whyShift == internalNodeChildFatal(shifted, index)
      placed == putInternalKey(putInternalNodeChild(shifted, index, childPageNum),
                               index, childMaxKey)
  IN IF ~Ok(s) THEN s
     ELSE IF ULess(rightMax.v, childMaxKey)
          THEN (IF whyReplace # "none" THEN Fail(s, whyReplace)
                ELSE SetNode(s, parentPageNum, replaced))
          ELSE (IF whyShift # "none" THEN Fail(s, whyShift)
                ELSE SetNode(s, parentPageNum, placed))

\* the insert that splits a node only once it holds more than 3 keys
internalNodeInsertKeyLate(childMax, parentPageNum, childPageNum) ==
  LET s == childMax.s
      parent == Node(s, parentPageNum)
      index == internalNodeFindChild(parent, childMax.v)
      originalNumKeys == internalNodeNumKeys(parent)
      rightChildPageNum == internalNodeRightChild(parent)
  IN IF ~Ok(s) THEN s
     ELSE IF originalNumKeys > InternalNodeMaxCells
          THEN internalNodeSplitAndInsert(s, parentPageNum, childPageNum)
     ELSE IF rightChildPageNum = InvalidPageNum
          THEN SetNode(s, parentPageNum, [parent EXCEPT !.link = childPageNum])
     ELSE internalNodeInsertCell(
            getNodeMaxKey(incrementNumKeys(getPage(s, rightChildPageNum), parentPageNum),
                          rightChildPageNum, TableMaxPages),
            parentPageNum, childPageNum, childMax.v, index, originalNumKeys)

\* internalNodeInsert once the maximum of the child is known
internalNodeInsertKey(childMax, parentPageNum, childPageNum) ==
  LET s == childMax.s
      parent == Node(s, parentPageNum)
      index == internalNodeFindChild(parent, childMax.v)
      originalNumKeys == internalNodeNumKeys(parent)
      rightChildPageNum == internalNodeRightChild(parent)
  IN IF ~Ok(s) THEN s
     ELSE IF originalNumKeys >= InternalNodeMaxCells
          THEN internalNodeSplitAndInsert(s, parentPageNum, childPageNum)
     ELSE IF rightChildPageNum = InvalidPageNum
          THEN SetNode(s, parentPageNum, [parent EXCEPT !.link = childPageNum])
     ELSE internalNodeInsertCell(
            getNodeMaxKey(incrementNumKeys(getPage(s, rightChildPageNum), parentPageNum),
                          rightChildPageNum, TableMaxPages),
            parentPageNum, childPageNum, childMax.v, index, originalNumKeys)

\* internalNodeInsert: add the child/key pair of childPageNum to the node on
\* parentPageNum
internalNodeInsert(s, parentPageNum, childPageNum) ==
  internalNodeInsertKey(
    getNodeMaxKey(getPage(getPage(s, parentPageNum), childPageNum),
                  childPageNum, TableMaxPages),
    parentPageNum, childPageNum)

\* ---- leaf insert and split ---------------------------------------------
\* loop of leafNodeSplitAndInsert, from logical cell i down to 0: the 14
\* logical cells (13 stored and the new one at cursor.cellNum) are written to
\* slot i % LeafNodeLeftSplitCount of the new leaf (i >= the left count) or of
\* the old leaf, in place
RECURSIVE splitLeafCellsNoShift(_, _, _, _, _, _)
RECURSIVE splitLeafCells(_, _, _, _, _, _)

\* the loop with the cells above the cursor taken from slot i instead of
\* slot i - 1: the cell at the cursor is overwritten by the new one
splitLeafCellsNoShift(s, oldPageNum, newPageNum, cursor, cell, i) ==
  LET destPageNum == IF i >= LeafNodeLeftSplitCount THEN newPageNum ELSE oldPageNum
      moved == IF i = cursor.cellNum THEN cell
               ELSE leafNodeCell(Node(s, oldPageNum), IF i = LeafNodeMaxCells THEN i - 1 ELSE i)
  IN IF ~Ok(s) \/ i < 0 THEN s
     ELSE splitLeafCellsNoShift(
            SetNode(s, destPageNum,
                    putLeafCell(Node(s, destPageNum), i % LeafNodeLeftSplitCount, moved)),
            oldPageNum, newPageNum, cursor, cell, i - 1)

splitLeafCells(s, oldPageNum, newPageNum, cursor, cell, i) ==
  LET destPageNum == IF i >= LeafNodeLeftSplitCount THEN newPageNum ELSE oldPageNum
      indexWithinNode == i % LeafNodeLeftSplitCount
      oldNode == Node(s, oldPageNum)
      moved == IF i = cursor.cellNum THEN cell
               ELSE IF ULess(cursor.cellNum, i) THEN leafNodeCell(oldNode, i - 1)
               ELSE leafNodeCell(oldNode, i)
      srcInPage == i = cursor.cellNum
                   \/ (IF ULess(cursor.cellNum, i) THEN leafNodeCellInPage(i - 1)
                       ELSE leafNodeCellInPage(i))
  IN IF ~Ok(s) \/ i < 0 THEN s
     ELSE IF ~srcInPage THEN Fail(s, "slice bounds out of range")
     ELSE splitLeafCells(
            SetNode(s, destPageNum,
                    putLeafCell(Node(s, destPageNum), indexWithinNode, moved)),
            oldPageNum, newPageNum, cursor, cell, i - 1)

\* the new leaf: initialized, with the old leaf's parent and next leaf; the
\* old leaf's next leaf is the new leaf
leafSplitLink(s, oldPageNum, newPageNum) ==
  LET oldNode == Node(s, oldPageNum)
      newNode == [initializeLeafNode(Node(s, newPageNum))
                    EXCEPT !.parent = nodeParent(oldNode),
                           !.link = leafNodeNextLeaf(oldNode)]
  IN SetNode(SetNode(s, newPageNum, newNode),
             oldPageNum, [oldNode EXCEPT !.link = newPageNum])

\* the update of the old leaf's cell count alone: the new leaf's count stays
\* at the 0 of initializeLeafNode
leafSplitCountsOldOnly(s, oldPageNum, newPageNum) ==
  SetNode(s, oldPageNum, [Node(s, oldPageNum) EXCEPT !.num = LeafNodeLeftSplitCount])

\* "Update cell count on each leaf node"
leafSplitCounts(s, oldPageNum, newPageNum) ==
  SetNode(SetNode(s, oldPageNum,
                  [Node(s, oldPageNum) EXCEPT !.num = LeafNodeLeftSplitCount]),
          newPageNum, [Node(s, newPageNum) EXCEPT !.num = LeafNodeRightSplitCount])

\* a non-root leaf: refresh the separator, then insert the new leaf
leafSplitInsert(newMax, parentPageNum, newPageNum, oldMax) ==
  internalNodeInsert(
    updateInternalNodeKey(getPage(newMax.s, parentPageNum), parentPageNum,
                          oldMax, newMax.v),
    parentPageNum, newPageNum)

\* a root leaf gets a new root, another leaf goes to its parent
leafSplitParent(s, oldPageNum, newPageNum, oldMax) ==
  IF ~Ok(s) THEN s
  ELSE IF isNodeRoot(Node(s, oldPageNum)) THEN createNewRoot(s, newPageNum)
  ELSE leafSplitInsert(getNodeMaxKey(s, oldPageNum, TableMaxPages),
                       nodeParent(Node(s, oldPageNum)), newPageNum, oldMax)

\* leafNodeSplitAndInsert once oldMax and newPageNum are known
leafSplitNewLeaf(s, cursor, cell, newPageNum, oldMax) ==
  leafSplitParent(
    leafSplitCounts(
      splitLeafCells(leafSplitLink(getPage(s, newPageNum), cursor.pageNum, newPageNum),
                     cursor.pageNum, newPageNum, cursor, cell, LeafNodeMaxCells),
      cursor.pageNum, newPageNum),
    cursor.pageNum, newPageNum, oldMax)

\* leafNodeSplitAndInsert after getNodeMaxKey(oldNode)
leafSplitOldMax(oldMax, cursor, key, value) ==
  leafSplitNewLeaf(oldMax.s, cursor, newLeafCell(key, value),
                   getUnusedPageNum(oldMax.s), oldMax.v)

leafNodeSplitAndInsert(s, cursor, key, value) ==
  leafSplitOldMax(getNodeMaxKey(getPage(s, cursor.pageNum), cursor.pageNum, TableMaxPages),
                  cursor, key, value)

\* "Make room for a new cell": cells cellNum .. i-1 move up by one
RECURSIVE shiftLeafCells(_, _, _)
shiftLeafCells(node, i, cellNum) ==
  IF ~(i > cellNum) THEN node
  ELSE shiftLeafCells(putLeafCell(node, i, leafNodeCell(node, i - 1)), i - 1, cellNum)

\* leafNodeInsert once the cursor's page is held
\* the insert without the loop that makes room: the cell at the cursor is
\* overwritten
leafNodeInsertHeldNoRoom(s, cursor, key, value) ==
  LET node == Node(s, cursor.pageNum)
      numCells == leafNodeNumCells(node)
      written == putLeafCell([node EXCEPT !.num = numCells + 1],
                             cursor.cellNum, newLeafCell(key, value))
  IN IF ~Ok(s) THEN s
     ELSE IF numCells >= LeafNodeMaxCells THEN leafNodeSplitAndInsert(s, cursor, key, value)
     ELSE IF ~leafNodeCellInPage(cursor.cellNum) THEN Fail(s, "slice bounds out of range")
     ELSE SetNode(s, cursor.pageNum, written)

leafNodeInsertHeld(s, cursor, key, value) ==
  LET node == Node(s, cursor.pageNum)
      numCells == leafNodeNumCells(node)
      shifted == IF cursor.cellNum < numCells
                 THEN shiftLeafCells(node, numCells, cursor.cellNum) ELSE node
      written == putLeafCell([shifted EXCEPT !.num = numCells + 1],
                             cursor.cellNum, newLeafCell(key, value))
  IN IF ~Ok(s) THEN s
     ELSE IF numCells >= LeafNodeMaxCells THEN leafNodeSplitAndInsert(s, cursor, key, value)
     ELSE IF ~leafNodeCellInPage(cursor.cellNum) THEN Fail(s, "slice bounds out of range")
     ELSE SetNode(s, cursor.pageNum, written)

leafNodeInsert(s, cursor, key, value) ==
  leafNodeInsertHeld(getPage(s, cursor.pageNum), cursor, key, value)

\* ---- statements ---------------------------------------------------------
\* executeInsert after tableFind.  The cell count and the key compared with
\* the new key are read from the root page, the cell index from the cursor
\* tableFind returned.
executeInsertFound(found, rowToInsert) ==
  LET node == Node(found.s, 0)
      numCells == leafNodeNumCells(node)
      keyToInsert == rowToInsert.id
      cursor == found.v
  IN IF ~Ok(found.s) THEN Ret(found.s, "none")
     ELSE IF cursor.cellNum < numCells /\ leafNodeKey(node, cursor.cellNum) = keyToInsert
          THEN Ret(found.s, "duplicate key")
     ELSE Ret(leafNodeInsert(found.s, cursor, rowToInsert.id, rowToInsert), "none")

\* executeInsert: returns the state and the error ("none" for nil)
executeInsert(s, rowToInsert) ==
  executeInsertFound(tableFind(getPage(s, 0), rowToInsert.id), rowToInsert)

\* tableStart after tableFind(table, 0)
tableStartFound(found) ==
  LET s == getPage(found.s, found.v.pageNum)
      numCells == leafNodeNumCells(Node(s, found.v.pageNum))
  IN Ret(s, [found.v EXCEPT !.endOfTable = (numCells = 0)])

\* tableStart
tableStart(s) == tableStartFound(tableFind(s, 0))

\* an advance that goes on in its leaf where it should go to the next one
advanceHeldStaying(s, c) ==
  LET node == Node(s, c.pageNum)
      cellNum == c.cellNum + 1
      nextPageNum == leafNodeNextLeaf(node)
  IN IF ~ULess(cellNum, leafNodeNumCells(node))
     THEN (IF nextPageNum = 0
           THEN Ret(s, [c EXCEPT !.cellNum = cellNum, !.endOfTable = TRUE])
           ELSE Ret(s, [c EXCEPT !.cellNum = cellNum]))
     ELSE Ret(s, [c EXCEPT !.cellNum = cellNum])

\* Cursor.advance once the cursor's page is held
advanceHeld(s, c) ==
  LET node == Node(s, c.pageNum)
      cellNum == c.cellNum + 1
      nextPageNum == leafNodeNextLeaf(node)
  IN IF ~ULess(cellNum, leafNodeNumCells(node))
     THEN (IF nextPageNum = 0
           THEN Ret(s, [c EXCEPT !.cellNum = cellNum, !.endOfTable = TRUE])
           ELSE Ret(s, [c EXCEPT !.pageNum = nextPageNum, !.cellNum = 0]))
     ELSE Ret(s, [c EXCEPT !.cellNum = cellNum])

\* an advance that also fetches the first unused page
advanceFetchingUnused(s, c) ==
  advanceHeld(getPage(getPage(s, getUnusedPageNum(s)), c.pageNum), c)

\* Cursor.advance
advance(s, c) == advanceHeld(getPage(s, c.pageNum), c)

\* loop of executeSelect: the rows printed so far are acc; fuel bounds the
\* walk (a walk of more steps than there are cells never ends).  A frame
\* [s, c, acc, fuel] is the loop's state before an iteration.
SelectFuel == TableMaxPages * LeafNodeMaxCells + 1

Frame(s, c, acc, fuel) == [s |-> s, c |-> c, acc |-> acc, fuel |-> fuel]

RECURSIVE selectCells(_)

\* one iteration after cursor.Value() and the print: advance
selectAdvance(next, c, acc, fuel) ==
  IF Ok(next.s) /\ next.v.pageNum = c.pageNum /\ next.v.cellNum > c.cellNum
     /\ ~next.v.endOfTable
  THEN selectCells(Frame(next.s, next.v, acc, fuel))
  ELSE Frame(next.s, next.v, acc, fuel)

\* one iteration once the cursor's page is held: cursor.Value(), print
selectRow(s, f) ==
  IF ~Ok(s) THEN [f EXCEPT !.s = s]
  ELSE IF ~leafNodeCellInPage(f.c.cellNum)
       THEN [f EXCEPT !.s = Fail(s, "slice bounds out of range")]
  ELSE selectAdvance(advance(s, f.c), f.c,
                     Append(f.acc, (Node(s, f.c.pageNum)).lv[f.c.cellNum]), f.fuel - 1)

\* the iterations that stay on one leaf
selectCells(f) ==
  IF ~Ok(f.s) \/ f.c.endOfTable \/ f.fuel = 0 THEN f
  ELSE selectRow(getPage(f.s, f.c.pageNum), f)

\* the loop from leaf to leaf
RECURSIVE selectLoop(_)
selectLoop(f) ==
  IF ~Ok(f.s) \/ f.c.endOfTable THEN Ret(f.s, f.acc)
  ELSE IF f.fuel = 0 THEN Ret(Fail(f.s, "select does not terminate"), f.acc)
  ELSE selectLoop(selectCells(f))

\* executeSelect after tableStart
executeSelectFrom(start) == selectLoop(Frame(start.s, start.v, <<>>, SelectFuel))

\* executeSelect: the state and the ids of the rows printed, in order
executeSelect(s) == executeSelectFrom(tableStart(s))


\* ---- delete --------------------------------------------------------------
\* internalNodeFindKey: the index of the cell whose key is key, and whether
\* there is one
internalNodeFindKey(node, key) ==
  LET minIdx == internalSearch(node, key, 0, internalNodeNumKeys(node))
  IN IF internalNodeKey(node, minIdx) # key THEN [idx |-> 0, ok |-> FALSE]
     ELSE [idx |-> minIdx, ok |-> TRUE]

\* "Move all cells above the deleted row 1 level down": cells i .. numCells-1
RECURSIVE deleteShiftCells(_, _, _, _)
deleteShiftCells(s, pageNum, i, numCells) ==
  IF ~Ok(s) \/ ~ULess(i, numCells) THEN s
  ELSE IF ~leafNodeCellInPage(i) THEN Fail(s, "slice bounds out of range")
  ELSE deleteShiftCells(
         SetNode(s, pageNum,
                 putLeafCell(Node(s, pageNum), i - 1, leafNodeCell(Node(s, pageNum), i))),
         pageNum, i + 1, numCells)

\* PutUint32(leafNodeNumCells(node), numCells-1)
deleteSetNumCells(s, pageNum, numCells) ==
  SetNode(s, pageNum, [Node(s, pageNum) EXCEPT !.num = numCells - 1])

RECURSIVE deleteUpdateParents(_, _, _, _, _)

\* one round of "Update the maxKey in parent", the parent page held
deleteUpdateParent(s, parentPageNum, keyToDelete, newMaxKey, fuel) ==
  LET parent == Node(s, parentPageNum)
      found == internalNodeFindKey(parent, keyToDelete)
  IN IF ~Ok(s) \/ ~found.ok THEN s
     ELSE deleteUpdateParents(
            SetNode(s, parentPageNum, putInternalKey(parent, found.idx, newMaxKey)),
            parentPageNum, keyToDelete, newMaxKey, fuel - 1)

\* the walk towards the root; fuel bounds it (parent pointers that form a
\* cycle without the root keep it going for ever)
deleteUpdateParents(s, pageNum, keyToDelete, newMaxKey, fuel) ==
  LET parentPageNum == nodeParent(Node(s, pageNum))
  IN IF ~Ok(s) \/ isNodeRoot(Node(s, pageNum)) THEN s
     ELSE IF fuel = 0 THEN Fail(s, "delete does not terminate")
     ELSE deleteUpdateParent(getPage(s, parentPageNum), parentPageNum,
                             keyToDelete, newMaxKey, fuel)

\* executeDelete after the cell count is written: the new maximum is read
\* from cell numCells-2
deleteNewMaxKey(s, pageNum, keyToDelete, numCells) ==
  LET newMaxKey == leafNodeKey(Node(s, pageNum), numCells - 2)
  IN IF ~Ok(s) THEN s
     ELSE IF ~leafNodeCellInPage(numCells - 2) THEN Fail(s, "slice bounds out of range")
     ELSE IF ULess(keyToDelete, newMaxKey) THEN s
     ELSE deleteUpdateParents(s, pageNum, keyToDelete, newMaxKey, TableMaxPages)

\* the test for `key does not exist` with the comparison of the key left
\* out: any cell index below the cell count passes
deleteKeyMissingNoCompare(node, cursor, keyToDelete) ==
  ~ULess(cursor.cellNum, leafNodeNumCells(node))

\* the two tests that end executeDelete with `key N does not exist`
deleteKeyMissing(node, cursor, keyToDelete) ==
  \/ ~ULess(cursor.cellNum, leafNodeNumCells(node))
  \/ leafNodeKey(node, cursor.cellNum) # keyToDelete

\* executeDelete once the cursor's page is held
executeDeleteHeld(s, cursor, keyToDelete) ==
  LET node == Node(s, cursor.pageNum)
      numCells == leafNodeNumCells(node)
  IN IF ~Ok(s) THEN Ret(s, "none")
     ELSE IF deleteKeyMissing(node, cursor, keyToDelete)
          THEN Ret(s, "key does not exist")
     ELSE Ret(deleteNewMaxKey(
                deleteSetNumCells(
                  deleteShiftCells(s, cursor.pageNum, cursor.cellNum + 1, numCells),
                  cursor.pageNum, numCells),
                cursor.pageNum, keyToDelete, numCells),
              "none")

\* executeDelete after tableFind
executeDeleteFound(found, keyToDelete) ==
  executeDeleteHeld(getPage(found.s, found.v.pageNum), found.v, keyToDelete)

\* executeDelete: the state and the error ("none" for nil)
executeDelete(s, keyToDelete) == executeDeleteFound(tableFind(s, keyToDelete), keyToDelete)


\* ---- displayTree ---------------------------------------------------------
\* the lines displayTree prints: [indent, what, n]
TreeLine(indentLevel, what, n) == [indent |-> indentLevel, what |-> what, n |-> n]

\* the lines of a leaf: its size, then its keys
displayLeaf(node, indentLevel) ==
  <<TreeLine(indentLevel, "leaf", leafNodeNumCells(node))>>
    \o [i \in 1 .. leafNodeNumCells(node) |->
          TreeLine(indentLevel + 1, "cell", leafNodeKey(node, i - 1))]

\* the output of a call appended to the lines printed before it
displayAppend(acc, r) == Ret(r.s, acc \o r.v)

\* one round of the loop over the keys, given what the call for child i
\* returned: "- key" is printed when the call returns
displayChildDone(acc, r, node, i, indentLevel) ==
  IF ~Ok(r.s) THEN Ret(r.s, acc \o r.v)
  ELSE Ret(r.s, acc \o r.v \o <<TreeLine(indentLevel + 1, "key", internalNodeKey(node, i))>>)

\* displayTree; fuel bounds the depth (a walk that never reaches a leaf
\* exhausts the goroutine stack)
RECURSIVE displayTree(_, _, _, _)
RECURSIVE displayChildren(_, _, _, _, _)
displayChildren(r, pageNum, i, indentLevel, fuel) ==
  IF ~Ok(r.s) \/ ~ULess(i, internalNodeNumKeys(Node(r.s, pageNum))) THEN r
  ELSE IF internalNodeChildFatal(Node(r.s, pageNum), i) # "none"
       THEN Ret(Fail(r.s, internalNodeChildFatal(Node(r.s, pageNum), i)), r.v)
       ELSE displayChildren(
              displayChildDone(r.v,
                               displayTree(r.s, internalNodeChild(Node(r.s, pageNum), i),
                                           indentLevel + 1, fuel),
                               Node(r.s, pageNum), i, indentLevel),
              pageNum, i + 1, indentLevel, fuel)

\* the call for the right child, after the loop
displayRightChild(r, pageNum, indentLevel, fuel) ==
  IF ~Ok(r.s) THEN r
  ELSE displayAppend(r.v, displayTree(r.s, internalNodeRightChild(Node(r.s, pageNum)),
                                      indentLevel + 1, fuel))

\* displayTree after getPage
displayNode(s, pageNum, indentLevel, fuel) ==
  IF ~Ok(s) THEN Ret(s, <<>>)
  ELSE IF fuel = 0 THEN Ret(Fail(s, "stack overflow"), <<>>)
  ELSE IF getNodeType(Node(s, pageNum)) = NodeLeaf
       THEN Ret(s, displayLeaf(Node(s, pageNum), indentLevel))
       ELSE displayRightChild(
              displayChildren(
                Ret(s, <<TreeLine(indentLevel, "internal",
                                  internalNodeNumKeys(Node(s, pageNum)))>>),
                pageNum, 0, indentLevel, fuel - 1),
              pageNum, indentLevel, fuel - 1)

displayTree(s, pageNum, indentLevel, fuel) ==
  displayNode(getPage(s, pageNum), pageNum, indentLevel, fuel)

\* ---- the shell: input lines ---------------------------------------------
\* A line is the sequence of its bytes.
InsertWord == <<105, 110, 115, 101, 114, 116>>
SelectWord == <<115, 101, 108, 101, 99, 116>>
BtreeCommand == <<46, 98, 116, 114, 101, 101>>
ExitCommand == <<46, 101, 120, 105, 116>>
HelpCommand == <<46, 104, 101, 108, 112>>
ClearCommand == <<46, 99, 108, 101, 97, 114>>
ConstantsCommand == <<46, 99, 111, 110, 115, 116, 97, 110, 116, 115>>

\* unicode.IsSpace and unicode.ToLower on the bytes of ASCII
IsSpace(b) == b \in {9, 10, 11, 12, 13, 32}
ToLower(b) == IF b >= 65 /\ b <= 90 THEN b + 32 ELSE b

\* the first position from p on that holds no space, and the first that
\* holds one; Len(text) + 1 when there is none
SkipSpace(text, p) ==
  CHOOSE q \in p .. Len(text) + 1 :
    /\ q > Len(text) \/ ~IsSpace(text[q])
    /\ \A j \in p .. (q - 1) : IsSpace(text[j])
TokenEnd(text, p) ==
  CHOOSE q \in p .. Len(text) + 1 :
    /\ q > Len(text) \/ IsSpace(text[q])
    /\ \A j \in p .. (q - 1) : ~IsSpace(text[j])

\* the last position that holds no space, 0 when there is none
LastNonSpace(text) ==
  CHOOSE q \in 0 .. Len(text) :
    /\ q = 0 \/ ~IsSpace(text[q])
    /\ \A j \in (q + 1) .. Len(text) : IsSpace(text[j])

\* strings.TrimSpace
TrimSpace(text) == SubSeq(text, SkipSpace(text, 1), LastNonSpace(text))

\* strings.ToLower
ToLowerAll(text) == [i \in 1 .. Len(text) |-> ToLower(text[i])]

\* CleanInput: TrimSpace, then ToLower
CleanInput(text) == ToLowerAll(TrimSpace(text))

\* fmt.Sscanf(text, "insert %d %s %s", ...) on a text that begins with
\* "insert"; positions count from 1, Len(text) + 1 is the end of the input.
\* SkipSpace is the spaces of the format and the ones before a verb,
\* TokenEnd the end of the token of %s, NumberEnd the end of the token of
\* %d: digits and underscores.
IsNumberByte(b) == b = 95 \/ (b >= 48 /\ b <= 57)
NumberEnd(text, p) ==
  CHOOSE q \in p .. Len(text) + 1 :
    /\ q > Len(text) \/ ~IsNumberByte(text[q])
    /\ \A j \in p .. (q - 1) : IsNumberByte(text[j])

\* strconv.ParseUint(tok, 10, 64), for tokens of at most 9 digits
RECURSIVE ParseUint(_)
ParseUint(tok) ==
  IF Len(tok) = 0 THEN 0
  ELSE 10 * ParseUint(SubSeq(tok, 1, Len(tok) - 1)) + (tok[Len(tok)] - 48)

Scanned(err, id, username, email) ==
  [err |-> err, id |-> id, username |-> username, email |-> email]

\* the second %s, from the position after the spaces that follow the username
sscanfEmail(text, id, username, emailAt) ==
  IF emailAt > Len(text) THEN Scanned("unexpected EOF", id, username, <<>>)
  ELSE Scanned("none", id, username, SubSeq(text, emailAt, TokenEnd(text, emailAt) - 1))

\* the first %s
sscanfUsername(text, id, userAt) ==
  IF userAt > Len(text) THEN Scanned("unexpected EOF", id, <<>>, <<>>)
  ELSE sscanfEmail(text, id, SubSeq(text, userAt, TokenEnd(text, userAt) - 1),
                   SkipSpace(text, TokenEnd(text, userAt)))

\* %d into a uint32
sscanfId(text, idAt, idEnd) ==
  IF idAt > Len(text) THEN Scanned("unexpected EOF", 0, <<>>, <<>>)
  ELSE IF idEnd = idAt THEN Scanned("expected integer", 0, <<>>, <<>>)
  ELSE IF \E q \in idAt .. (idEnd - 1) : text[q] = 95
       THEN Scanned("invalid syntax", 0, <<>>, <<>>)
       ELSE sscanfUsername(text, ParseUint(SubSeq(text, idAt, idEnd - 1)),
                           SkipSpace(text, idEnd))

Sscanf(text) == sscanfId(text, SkipSpace(text, 7), NumberEnd(text, SkipSpace(text, 7)))

\* PrepareStatement's result: a panic, an error, or a statement
Prepared(panic, err, stmtType, row) ==
  [panic |-> panic, err |-> err, StmtType |-> stmtType, RowToInsert |-> row]

\* the mutant of tooLong: the limit itself is too long
tooLongAtLimit(field, size) == Len(field) >= size

\* len(field) > size
tooLong(field, size) == Len(field) > size

\* PrepareStatement after Sscanf.  Sscanf returns an error whenever it
\* scanned fewer than 3 operands, so the branch n < 3 is never taken.
prepareInsert(scanned) ==
  IF scanned.err # "none" THEN Prepared("none", scanned.err, "none", Row(0, <<>>))
  ELSE IF tooLong(scanned.username, UsernameSize)
       THEN Prepared("none", "string is too long", "none", Row(0, <<>>))
  ELSE IF tooLong(scanned.email, EmailSize)
       THEN Prepared("none", "string is too long", "none", Row(0, <<>>))
  ELSE Prepared("none", "none", "insert", Row(scanned.id, scanned.username))

\* PrepareStatement: text[:6] panics when the text has fewer than 6 bytes
PrepareStatement(text) ==
  IF Len(text) < 6
  THEN Prepared("slice bounds out of range", "none", "none", Row(0, <<>>))
  ELSE IF SubSeq(text, 1, 6) = InsertWord THEN prepareInsert(Sscanf(text))
  ELSE IF text = SelectWord THEN Prepared("none", "none", "select", Row(0, <<>>))
  ELSE Prepared("none", "unknown statement", "none", Row(0, <<>>))

\* what one round of main's loop did: the machine state, the error printed
\* after "Error: " ("none" if none), the lines printed, the kind of the round
\* and the key of an executed insert
Round(s, err, printed, kind, key) ==
  [s |-> s, err |-> err, out |-> printed, kind |-> kind, key |-> key]

\* a round that ran executeInsert, executeSelect or displayTree, given what
\* the call returned; the error of executeInsert is printed as "Error: ..."
insertRound(r, key) == Round(r.s, r.v, <<>>, "insert", key)
selectRound(r) == Round(r.s, "none", r.v, "select", 0)
btreeRound(r) == Round(r.s, "none", r.v, "btree", 0)

executeStatement(s, stmt) ==
  IF stmt.StmtType = "insert"
  THEN insertRound(executeInsert(s, serializeRow(stmt.RowToInsert)), stmt.RowToInsert.Id)
  ELSE selectRound(executeSelect(s))

\* the statement branch of the loop, given what PrepareStatement returned
mainStatement(s, stmt) ==
  IF stmt.panic # "none" THEN Round(Fail(s, stmt.panic), "none", <<>>, "panic", 0)
  ELSE IF stmt.err # "none" THEN Round(s, stmt.err, <<>>, "error", 0)
  ELSE executeStatement(s, stmt)

\* the command branch of the loop, for a text other than ".exit"
mainCommand(s, text) ==
  IF text = BtreeCommand
  THEN btreeRound(displayTree(s, 0, 0, TableMaxPages))
  ELSE IF text \in {HelpCommand, ClearCommand, ConstantsCommand}
       THEN Round(s, "none", <<>>, "command", 0)
       ELSE Round(s, "none", <<>>, "unknown command", 0)

\* one round of main's loop on the cleaned text: text[0] panics on an empty
\* text
mainRound(s, text) ==
  IF Len(text) = 0 THEN Round(Fail(s, "index out of range"), "none", <<>>, "panic", 0)
  ELSE IF text[1] = 46 THEN mainCommand(s, text)
  ELSE mainStatement(s, PrepareStatement(text))

\* ---- pager open, close --------------------------------------------------
NoPager == [pages |-> <<>>, numPages |-> 0, fileLength |-> 0]
Machine(pg) == [pages |-> pg.pages, numPages |-> pg.numPages,
                fileLength |-> pg.fileLength, fatal |-> "none", keyWrites |-> {}]
PagerOf(s) == [pages |-> s.pages, numPages |-> s.numPages, fileLength |-> s.fileLength]

\* the size in bytes of the file (os.File.Stat), its whole pages and its tail
FileSize(f) == Len(f) * PageSize + fileTail

\* a pagerOpen without the check of the file size
pagerOpenUnchecked(f) ==
  [pages |-> <<>>, numPages |-> FileSize(f) \div PageSize,
   fileLength |-> FileSize(f), fatal |-> "none", keyWrites |-> {}]

\* pagerOpen: the Pager is built from the file size, then a size that is not
\* a whole number of pages is fatal
pagerOpen(f) ==
  LET pager0 == [pages |-> <<>>, numPages |-> FileSize(f) \div PageSize,
                 fileLength |-> FileSize(f), fatal |-> "none", keyWrites |-> {}]
  IN IF FileSize(f) % PageSize # 0
     THEN Fail(pager0, "Db file is not a whole number of pages. Corrupt file.")
     ELSE pager0

\* a dbOpen that makes page 0 an empty root leaf whatever the file holds
dbOpenInitialisingAlways(f) ==
  SetNode(getPage(pagerOpen(f), 0), 0,
          [initializeLeafNode(Node(getPage(pagerOpen(f), 0), 0)) EXCEPT !.root = 1])

\* dbOpen: a file of no pages gets page 0 as an empty root leaf
dbOpen(f) ==
  LET s == pagerOpen(f)
      s1 == getPage(s, 0)
  IN IF s.numPages = 0
     THEN SetNode(s1, 0, [initializeLeafNode(Node(s1, 0)) EXCEPT !.root = 1])
     ELSE s

\* dbClose: pagerFlush of every held page below numPages (WriteAt at
\* pageNum * PageSize; a write past the end of the file extends it)
Max(a, b) == IF a > b THEN a ELSE b
\* the flush loop stopping one page early (i < numPages - 1)
FlushedPagesButLast(pg) == {n \in DOMAIN pg.pages : n < pg.numPages - 1}
FlushedPages(pg) == {n \in DOMAIN pg.pages : n < pg.numPages}
\* a close that leaves page 0 out of the flush loop (i from 1)
dbCloseFromPageOne(pg, f) ==
  LET held == FlushedPages(pg)
      last == IF held = {} THEN 0 ELSE (CHOOSE n \in held : \A m \in held : m <= n) + 1
  IN [n \in 1 .. Max(Len(f), last) |->
        IF (n - 1) \in held /\ n > 1 THEN pg.pages[n - 1]
        ELSE IF n <= Len(f) THEN f[n] ELSE ZeroPage]

dbClose(pg, f) ==
  LET held == FlushedPages(pg)
      last == IF held = {} THEN 0 ELSE (CHOOSE n \in held : \A m \in held : m <= n) + 1
  IN [n \in 1 .. Max(Len(f), last) |->
        IF (n - 1) \in held THEN pg.pages[n - 1]
        ELSE IF n <= Len(f) THEN f[n] ELSE ZeroPage]

\* ---- the tree as stored: page n is the held buffer, else the file's page
PageAt(n) ==
  IF n \in DOMAIN pager.pages THEN pager.pages[n]
  ELSE IF n + 1 <= Len(file) THEN file[n + 1] ELSE ZeroPage

NumPagesNow == IF status = "open" THEN pager.numPages ELSE Len(file)
Allocated == 0 .. (NumPagesNow - 1)

\* child slots of an internal page: cells 0..num_keys-1 and the right child
ChildSlots(n) == 0 .. PageAt(n).num
ChildAt(n, i) == internalNodeChild(PageAt(n), i)
Children(n) ==
  IF PageAt(n).type = NodeInternal /\ PageAt(n).num <= InternalNodeMaxCells
  THEN {ChildAt(n, i) : i \in ChildSlots(n)} \cap Allocated
  ELSE {}

RECURSIVE ReachFrom(_, _)
ReachFrom(frontier, seen) ==
  IF frontier = {} THEN seen
  ELSE LET next == (UNION {Children(n) : n \in frontier}) \ (seen \cup frontier)
       IN ReachFrom(next, seen \cup frontier)

\* pages reachable from the root
Reachable == IF NumPagesNow = 0 THEN {} ELSE ReachFrom({0}, {})
Leaves == {n \in Reachable : PageAt(n).type = NodeLeaf}
Internals == {n \in Reachable : PageAt(n).type = NodeInternal}
LeafKeys(n) == {PageAt(n).lk[i] : i \in {j \in LeafCells : j < PageAt(n).num}}
StoredKeys == UNION {LeafKeys(n) : n \in Leaves}

\* ---- state machine ------------------------------------------------------
Init ==
  /\ file = <<>>
  /\ fileTail = 0
  /\ pager = PagerOf(dbOpen(<<>>))
  /\ status = "open"
  /\ mult \in Mults
  /\ step = 0
  /\ ins = {}
  /\ accepted = 0
  /\ lastOp = "open"
  /\ lastErr = "none"
  /\ out = <<>>
  /\ lastKey = 0
  /\ wasStored = FALSE
  /\ distinct = TRUE
  /\ preClose = <<-1>>
  /\ sessions = 1
  /\ postIns = 0
  /\ repeats = 0
  /\ tail = 0
  /\ deletes = 0
  /\ delBefore = <<>>
  /\ delAfter = <<>>
  /\ line = [text |-> <<>>, kind |-> "none"]
  /\ lines = 0
  /\ selectCursor = [pageNum |-> 0, cellNum |-> 0, endOfTable |-> FALSE]

\* the statement ran to its end (r.s) or the process terminated in it
Finish(s) ==
  IF Ok(s) THEN pager' = PagerOf(s) /\ status' = "open"
  ELSE pager' = NoPager /\ status' = "exited"

\* executeStatement of "insert key user<key> ...", given what executeInsert
\* returned
InsertDone(r, key) ==
  LET done == Ok(r.s) /\ r.v = "none"
  IN /\ Finish(r.s)
     /\ lastErr' = IF Ok(r.s) THEN r.v ELSE r.s.fatal
     /\ lastKey' = key
     /\ wasStored' = (key \in StoredKeys)
     /\ ins' = IF done THEN ins \cup {key} ELSE ins
     /\ accepted' = IF done THEN accepted + 1 ELSE accepted
     /\ distinct' = (distinct /\ ~(done /\ key \in ins))
     /\ out' = <<>>
     /\ postIns' = IF sessions > 1 THEN postIns + 1 ELSE postIns
     /\ UNCHANGED <<file, fileTail, mult, preClose, sessions>>
     /\ UNCHANGED <<delVars, shellVars, selectCursor>>

DoInsert(key) ==
  InsertDone(executeInsert(Machine(pager), serializeRow(WorkloadRow(key))), key)

\* the next insert of the workload
Insert ==
  /\ status = "open"
  /\ step < MaxSteps
  /\ sessions = 1 \/ postIns < MaxPostInserts
  /\ repeats = 0 \/ tail < RepeatTail
  /\ DoInsert(KeyAt(mult, step))
  /\ step' = step + 1
  /\ lastOp' = "insert"
  /\ tail' = IF repeats > 0 THEN tail + 1 ELSE tail
  /\ UNCHANGED repeats

\* an insert that repeats the key of an earlier successful insert
InsertRepeat ==
  /\ status = "open"
  /\ repeats < MaxRepeats
  /\ step <= RepeatHorizon
  /\ sessions = 1 \/ postIns < MaxPostInserts
  /\ \E j \in {0, step \div 2, step - 1} :
        /\ j >= 0 /\ j < step
        /\ KeyAt(mult, j) \in ins
        /\ DoInsert(KeyAt(mult, j))
  /\ repeats' = repeats + 1
  /\ lastOp' = "insert"
  /\ UNCHANGED <<step, tail>>

\* executeStatement of "select", given what executeSelect returned
SelectDone(r) ==
  /\ Finish(r.s)
  /\ lastErr' = IF Ok(r.s) THEN "none" ELSE r.s.fatal
  /\ out' = r.v

Select ==
  /\ status = "open"
  /\ lastOp # "select"
  /\ SelectDone(executeSelect(Machine(pager)))
  /\ lastOp' = "select"
  /\ UNCHANGED <<file, fileTail, mult, step, ins, accepted, lastKey, wasStored, distinct,
                 preClose, sessions, postIns, repeats, tail>>
  /\ UNCHANGED <<delVars, shellVars, selectCursor>>

\* ".exit": dbClose, then the process ends
DbClose ==
  /\ status = "open"
  /\ step % ClosePeriod = 0
  /\ file' = dbClose(pager, file)
  /\ pager' = NoPager
  /\ status' = "closed"
  /\ preClose' = IF lastOp = "select" /\ lastErr = "none" THEN out ELSE <<-1>>
  /\ lastOp' = "close"
  /\ lastErr' = "none"
  /\ out' = <<>>
  /\ UNCHANGED <<mult, step, ins, accepted, lastKey, wasStored, distinct,
                 sessions, postIns, repeats, tail, fileTail>>
  /\ UNCHANGED <<delVars, shellVars, selectCursor>>

\* a new process opens the same file
DbOpen ==
  /\ status \in {"closed", "exited"}
  /\ sessions < MaxSessions
  /\ \E opened \in {dbOpen(file)} :
        /\ Finish(opened)
        /\ lastErr' = opened.fatal
  /\ sessions' = sessions + 1
  /\ postIns' = 0
  /\ lastOp' = "open"
  /\ out' = <<>>
  /\ preClose' = IF status = "closed" THEN preClose ELSE <<-1>>
  /\ UNCHANGED <<file, fileTail, mult, step, ins, accepted, lastKey, wasStored, distinct,
                 repeats, tail>>
  /\ UNCHANGED <<delVars, shellVars, selectCursor>>

Next == Insert \/ InsertRepeat \/ Select \/ DbClose \/ DbOpen

Spec == Init /\ [][Next]_vars

\* ---- inserts of key 0 ----------------------------------------------------
\* "insert 0 user0 ..." among the first inserts of the workload, until the
\* tree stores MaxZeroInserts cells of key 0
MaxZeroInserts == 2

InsertZero ==
  /\ status = "open"
  /\ step <= RepeatHorizon
  /\ 0 \notin ins \/ accepted - Cardinality(ins) < MaxZeroInserts - 1
  /\ DoInsert(0)
  /\ lastOp' = "insert"
  /\ UNCHANGED <<step, tail, repeats>>

NextZero == Insert \/ InsertZero \/ Select

SpecZero == Init /\ [][NextZero]_vars

\* ---- executeDelete calls -------------------------------------------------
\* the rows of a select, <<-1>> when the select does not return
SelectRows(r) == IF Ok(r.s) THEN r.v ELSE <<-1>>

\* executeStatement of a delete statement, given what executeDelete returned
DeleteDone(r, key) ==
  LET done == Ok(r.s) /\ r.v = "none"
  IN /\ Finish(r.s)
     /\ lastErr' = IF Ok(r.s) THEN r.v ELSE r.s.fatal
     /\ lastKey' = key
     /\ wasStored' = (key \in StoredKeys)
     /\ ins' = IF done THEN ins \ {key} ELSE ins
     /\ delBefore' = IF key \in StoredKeys THEN SelectRows(executeSelect(Machine(pager)))
                     ELSE <<-1>>
     /\ delAfter' = IF done THEN SelectRows(executeSelect(Machine(pager'))) ELSE <<-1>>

\* a delete statement for a key of the workload, for the next key of the
\* workload, or for a key below or above all keys
Delete ==
  /\ status = "open"
  /\ deletes < MaxDeletes
  /\ deletes > 0 \/ step <= DeleteHorizon \/ step % DeletePeriod = 0
  /\ \E key \in {0, KeyModulus, KeyAt(mult, 0), KeyAt(mult, step \div 2),
                 KeyAt(mult, step - 1), KeyAt(mult, step)} :
        DeleteDone(executeDelete(Machine(pager), key), key)
  /\ deletes' = deletes + 1
  /\ lastOp' = "delete"
  /\ out' = <<>>
  /\ UNCHANGED <<file, fileTail, mult, step, accepted, distinct, preClose, sessions, postIns,
                 repeats, tail, shellVars,
                 selectCursor>>

\* inserts while no delete was issued
InsertBeforeDelete == deletes = 0 /\ Insert

NextDelete == InsertBeforeDelete \/ Delete

SpecDelete == Init /\ [][NextDelete]_vars

\* ---- inserts into a full root leaf ----------------------------------------
\* the rows that fill the root leaf: the even keys 2 .. 2 * LeafNodeMaxCells
\* in the order of the workload
FillKey(m, i) == 2 * (((m % LeafNodeMaxCells) * (i + 1)) % LeafNodeMaxCells) + 2

FillInsert ==
  /\ status = "open"
  /\ step < LeafNodeMaxCells
  /\ DoInsert(FillKey(mult, step))
  /\ step' = step + 1
  /\ lastOp' = "insert"
  /\ UNCHANGED <<repeats, tail>>

\* the insert that finds the root leaf full: an odd key, for each position
SplitInsert ==
  /\ status = "open"
  /\ step = LeafNodeMaxCells
  /\ \E position \in 0 .. LeafNodeMaxCells : DoInsert(2 * position + 1)
  /\ step' = step + 1
  /\ lastOp' = "insert"
  /\ UNCHANGED <<repeats, tail>>

\* after the split the right leaf is filled again: the even keys that follow
\* the ones of the root leaf
RefillCount == LeafNodeMaxCells - LeafNodeRightSplitCount

RefillInsert ==
  /\ status = "open"
  /\ step > LeafNodeMaxCells
  /\ step <= LeafNodeMaxCells + RefillCount
  /\ DoInsert(2 * step)
  /\ step' = step + 1
  /\ lastOp' = "insert"
  /\ UNCHANGED <<repeats, tail>>

\* an insert of any key that is not stored: into the left leaf, which has
\* room, or into the full right leaf at the positions the key falls on
SecondSplitInsert ==
  /\ status = "open"
  /\ step = LeafNodeMaxCells + RefillCount + 1
  /\ \E key \in (1 .. (2 * step + 3)) \ StoredKeys : DoInsert(key)
  /\ step' = step + 1
  /\ lastOp' = "insert"
  /\ UNCHANGED <<repeats, tail>>

NextSplit == FillInsert \/ SplitInsert \/ RefillInsert \/ SecondSplitInsert

SpecSplit == Init /\ [][NextSplit]_vars

\* ---- input lines ---------------------------------------------------------
\* a name of n bytes
Name(n) == [i \in 1 .. n |-> 97]

\* "insert <id> <username> <email>"
InsertLine(id, username, email) ==
  InsertWord \o <<32>> \o Digits(id) \o <<32>> \o username \o <<32>> \o email

\* insert lines whose username has at most UsernameSize bytes and whose
\* email has at most EmailSize bytes; the last is " INSERT 165 BOB B@X "
AcceptedInsertLines ==
  {InsertLine(KeyModulus + 1, Name(5), Name(10)),
   InsertLine(KeyModulus + 1, Name(UsernameSize), Name(EmailSize)),
   <<32, 73, 78, 83, 69, 82, 84, 32, 49, 54, 53, 32, 66, 79, 66, 32, 66, 64, 88, 32>>}

\* insert lines with a username or an email beyond the size
TooLongLines ==
  {InsertLine(KeyModulus + 1, Name(UsernameSize + 1), Name(10)),
   InsertLine(KeyModulus + 1, Name(5), Name(EmailSize + 1)),
   InsertLine(KeyModulus + 1, Name(UsernameSize + 1), Name(EmailSize + 1))}

\* "select", " SELECT "
SelectLines == {SelectWord, <<32, 83, 69, 76, 69, 67, 84, 32>>}

\* non-empty lines that do not begin with "." and are no statement:
\* "foo", "selec", "selects", "delete 5", "insert", "insert x a b",
\* "insert 164 bob"
InvalidLines ==
  {<<102, 111, 111>>,
   <<115, 101, 108, 101, 99>>,
   <<115, 101, 108, 101, 99, 116, 115>>,
   <<100, 101, 108, 101, 116, 101, 32, 53>>,
   InsertWord,
   InsertWord \o <<32, 120, 32, 97, 32, 98>>,
   InsertWord \o <<32, 49, 54, 52, 32, 98, 111, 98>>}

\* a line of spaces: CleanInput leaves the empty text
BlankLines == {<<32, 32>>}

\* ".btree", ".help", ".foo"
CommandLines == {BtreeCommand, HelpCommand, <<46, 102, 111, 111>>}

Lines == AcceptedInsertLines \cup TooLongLines \cup SelectLines \cup InvalidLines
           \cup BlankLines \cup CommandLines

\* one round of main's loop on the line raw, given what the round did
LineDone(r, raw) ==
  LET done == Ok(r.s) /\ r.kind = "insert" /\ r.err = "none"
  IN /\ Finish(r.s)
     /\ lastErr' = IF Ok(r.s) THEN r.err ELSE r.s.fatal
     /\ out' = r.out
     /\ line' = [text |-> raw, kind |-> r.kind]
     /\ lastKey' = r.key
     /\ wasStored' = (r.kind = "insert" /\ r.key \in StoredKeys)
     /\ ins' = IF done THEN ins \cup {r.key} ELSE ins
     /\ accepted' = IF done THEN accepted + 1 ELSE accepted
     /\ distinct' = (distinct /\ ~(done /\ r.key \in ins))

\* the shell reads a line other than ".exit"
Line ==
  /\ status = "open"
  /\ lines < MaxLines
  /\ lines > 0 \/ step <= LineHorizon \/ step % LinePeriod = 0
  /\ \E raw \in Lines : LineDone(mainRound(Machine(pager), CleanInput(raw)), raw)
  /\ lines' = lines + 1
  /\ lastOp' = "line"
  /\ UNCHANGED <<file, fileTail, mult, step, preClose, sessions, postIns, repeats, tail, delVars,
                 selectCursor>>

\* inserts of the workload while no line was read
InsertBeforeLine == lines = 0 /\ Insert

NextShell == InsertBeforeLine \/ Line

SpecShell == Init /\ [][NextShell]_vars


\* ------------------------------------------------------------------------
\* executeSelect one iteration at a time, on the trees of every
\* SelectEvery-th step at which a delete may come, after SelectDeletes
\* deletes at most: tableStart, then cursor.Value() and advance until
\* end_of_table.  No statement runs while the select does; the loop runs on
\* as long as it can.
\* ------------------------------------------------------------------------
SelectEvery == 6
SelectDeletes == 1

SelectStep == step > 0 /\ step % (DeletePeriod * SelectEvery) = 0

InsertBeforeSelect == lastOp # "select" /\ deletes = 0 /\ Insert

DeleteBeforeSelect == lastOp # "select" /\ SelectStep /\ deletes < SelectDeletes /\ Delete

\* the cursor c and the machine state s after tableStart or after an iteration
SelectAt(s, c) ==
  /\ Finish(s)
  /\ lastErr' = s.fatal
  /\ selectCursor' = c
  /\ lastOp' = "select"
  /\ out' = <<>>
  /\ UNCHANGED <<file, fileTail, mult, step, ins, accepted, lastKey, wasStored, distinct,
                 preClose, sessions, postIns, repeats, tail, delVars, shellVars>>

SelectStart ==
  /\ status = "open"
  /\ lastOp # "select"
  /\ SelectStep
  /\ \E start \in {tableStart(Machine(pager))} : SelectAt(start.s, start.v)

\* cursor.Value() of the iteration: the page is fetched and the cell sliced
selectValue(s, c) ==
  IF Ok(s) /\ ~leafNodeCellInPage(c.cellNum) THEN Fail(s, "slice bounds out of range") ELSE s

SelectAdvance ==
  /\ status = "open"
  /\ lastOp = "select"
  /\ ~selectCursor.endOfTable
  /\ \E next \in {advance(selectValue(getPage(Machine(pager), selectCursor.pageNum),
                                      selectCursor),
                          selectCursor)} :
        SelectAt(next.s, next.v)

NextSelect == InsertBeforeSelect \/ DeleteBeforeSelect \/ SelectStart \/ SelectAdvance

SpecSelect == Init /\ [][NextSelect]_vars /\ WF_vars(SelectAdvance)

\* ------------------------------------------------------------------------
\* Statements of all three kinds and the close and reopen of the file: the
\* inserts of the workload, a delete after the first inserts or at a step
\* where a select may start, selects, ".exit" and a new process on the file.
\* ------------------------------------------------------------------------
InsertBeforeFileDelete == deletes = 0 /\ Insert

FileDelete ==
  /\ step <= DeleteHorizon \/ SelectStep
  /\ deletes < SelectDeletes
  /\ Delete

NextFile == InsertBeforeFileDelete \/ FileDelete \/ Select \/ DbClose \/ DbOpen

SpecFile == Init /\ [][NextFile]_vars

\* ------------------------------------------------------------------------
\* The two binary searches on single nodes: page 0 holds a node of ascending
\* keys drawn from 1 .. MaxFindKey (and the full leaf of 13 even keys), the
\* slots past its count hold a stale key; each step searches it for a key.
\* ------------------------------------------------------------------------
MaxFindKey == 8

StaleKeys == {0, MaxFindKey \div 2, MaxFindKey + 1}
FullLeafKeys == {2 * (i + 1) : i \in LeafCells}
FindProbes == 0 .. (2 * LeafNodeMaxCells + 1)

\* the key of keys with i keys of keys below it
RankKey(keys, i) == CHOOSE k \in keys : Cardinality({x \in keys : x < k}) = i
SlotKey(keys, i, stale) == IF i < Cardinality(keys) THEN RankKey(keys, i) ELSE stale

\* a root leaf with the keys in its first cells, each the id of its row
LeafOfKeys(keys, stale) ==
  [ZeroPage EXCEPT !.type = NodeLeaf, !.root = 1, !.num = Cardinality(keys),
                   !.lk = [i \in LeafCells |-> SlotKey(keys, i, stale)],
                   !.lv = [i \in LeafCells |-> SlotKey(keys, i, stale)]]

\* a root internal node with the keys as its separators, child i on page
\* i + 1 and the right child on the page after those
InternalOfKeys(keys, stale) ==
  [ZeroPage EXCEPT !.type = NodeInternal, !.root = 1, !.num = Cardinality(keys),
                   !.link = InternalNodeMaxCells + 1,
                   !.lk[0] = 1, !.lv[0] = SlotKey(keys, 0, stale),
                   !.ic = [j \in InternalCells |-> j + 1],
                   !.ik = [j \in InternalCells |-> SlotKey(keys, j, stale)]]

FindNodes ==
  {LeafOfKeys(keys, stale) : keys \in SUBSET (1 .. MaxFindKey), stale \in StaleKeys}
    \cup {LeafOfKeys(FullLeafKeys, 0)}
    \cup {InternalOfKeys(keys, stale) :
            keys \in {S \in SUBSET (1 .. MaxFindKey) : Cardinality(S) <= InternalNodeMaxCells},
            stale \in StaleKeys}

InitFind ==
  /\ file = <<>>
  /\ fileTail = 0
  /\ \E node \in FindNodes : pager = [pages |-> (0 :> node), numPages |-> 1, fileLength |-> 0]
  /\ status = "open"
  /\ mult = 1
  /\ step = 0
  /\ ins = {}
  /\ accepted = 0
  /\ lastOp = "open"
  /\ lastErr = "none"
  /\ out = <<>>
  /\ lastKey = 0
  /\ wasStored = FALSE
  /\ distinct = TRUE
  /\ preClose = <<-1>>
  /\ sessions = 1
  /\ postIns = 0
  /\ repeats = 0
  /\ tail = 0
  /\ deletes = 0
  /\ delBefore = <<>>
  /\ delAfter = <<>>
  /\ line = [text |-> <<>>, kind |-> "none"]
  /\ lines = 0
  /\ selectCursor = [pageNum |-> 0, cellNum |-> 0, endOfTable |-> FALSE]

\* the index found is kept in out
Found(op, key, index) ==
  /\ lastOp' = op
  /\ lastKey' = key
  /\ out' = <<index>>
  /\ UNCHANGED <<file, fileTail, pager, status, mult, step, ins, accepted, lastErr, wasStored,
                 distinct, preClose, sessions, postIns, repeats, tail, delVars, shellVars, selectCursor>>

FindChild ==
  /\ getNodeType(Node(Machine(pager), 0)) = NodeInternal
  /\ \E key \in FindProbes :
        Found("internalNodeFindChild", key, internalNodeFindChild(Node(Machine(pager), 0), key))

FindCell ==
  /\ getNodeType(Node(Machine(pager), 0)) = NodeLeaf
  /\ \E key \in FindProbes :
        Found("leafNodeFind", key, leafNodeFind(Machine(pager), 0, key).v.cellNum)

NextFind == FindChild \/ FindCell

SpecFind == InitFind /\ [][NextFind]_vars

\* ------------------------------------------------------------------------
\* dbOpen on files as they may lie on disk: no page, a root leaf, or a root
\* leaf and a zeroed page, followed by a tail of bytes that is no whole page
\* (none, one byte, a page less one byte, or a cut inside the page).
\* ------------------------------------------------------------------------
MaxOpenKey == 4
MaxTailCuts == 3

OpenLeaves == {LeafOfKeys(keys, 0) : keys \in SUBSET (1 .. MaxOpenKey)}
OpenFiles == {<<>>} \cup {<<leaf>> : leaf \in OpenLeaves}
               \cup {<<leaf, ZeroPage>> : leaf \in OpenLeaves}
OpenTails ==
  {0, 1, PageSize - 1} \cup {(PageSize * c) \div (MaxTailCuts + 1) : c \in 1 .. MaxTailCuts}

InitOpen ==
  /\ file \in OpenFiles
  /\ fileTail \in OpenTails
  /\ pager = NoPager
  /\ status = "closed"
  /\ mult = 1
  /\ step = 0
  /\ ins = {}
  /\ accepted = 0
  /\ lastOp = "none"
  /\ lastErr = "none"
  /\ out = <<>>
  /\ lastKey = 0
  /\ wasStored = FALSE
  /\ distinct = TRUE
  /\ preClose = <<-1>>
  /\ sessions = 0
  /\ postIns = 0
  /\ repeats = 0
  /\ tail = 0
  /\ deletes = 0
  /\ delBefore = <<>>
  /\ delAfter = <<>>
  /\ line = [text |-> <<>>, kind |-> "none"]
  /\ lines = 0
  /\ selectCursor = [pageNum |-> 0, cellNum |-> 0, endOfTable |-> FALSE]

\* the process ends at ".exit" right after the open
OpenedClose ==
  /\ status = "open"
  /\ lastOp = "open"
  /\ DbClose

NextOpen == DbOpen \/ OpenedClose

SpecOpen == InitOpen /\ [][NextOpen]_vars



\* ------------------------------------------------------------------------
\* Observations of the stored tree
\* ------------------------------------------------------------------------
IsStrictlyAscending(q) == \A i \in 1 .. (Len(q) - 1) : q[i] < q[i + 1]
Range(q) == {q[i] : i \in 1 .. Len(q)}
SetMax(S) == CHOOSE x \in S : \A y \in S : y <= x

\* keys stored in the leaves of the subtree of page n
SubtreeKeys(n) ==
  UNION {LeafKeys(l) : l \in {r \in ReachFrom({n}, {}) : PageAt(r).type = NodeLeaf}}

\* child slots (page p, slot i) of the reachable internal nodes
Slots == {<<p, i>> \in Internals \X (0 .. InternalNodeMaxCells) : i <= PageAt(p).num}
BodySlots == {sl \in Slots : sl[2] < PageAt(sl[1]).num}

\* cells (leaf n, cell i) of the reachable leaves
Cells == {<<n, i>> \in Leaves \X LeafCells : i < PageAt(n).num}

\* the leaves from the leftmost one along the next-leaf pointers
RECURSIVE Leftmost(_, _)
Leftmost(n, fuel) ==
  IF PageAt(n).type = NodeLeaf \/ fuel = 0 \/ ChildAt(n, 0) \notin Allocated THEN n
  ELSE Leftmost(ChildAt(n, 0), fuel - 1)

RECURSIVE ChainFrom(_, _, _)
ChainFrom(n, acc, fuel) ==
  LET next == PageAt(n).link
  IN IF fuel = 0 \/ next = 0 \/ next \notin Allocated THEN Append(acc, n)
     ELSE ChainFrom(next, Append(acc, n), fuel - 1)

LeafChain == IF NumPagesNow = 0 THEN <<>> ELSE ChainFrom(Leftmost(0, TableMaxPages), <<>>, TableMaxPages)

\* the leaf references of the subtree of page n, left to right (a leaf that
\* two slots list appears twice); fuel bounds the height
RECURSIVE LeafRefs(_, _)
LeafRefs(n, fuel) ==
  LET num == PageAt(n).num
      sub(i) == IF i <= num THEN LeafRefs(ChildAt(n, i), fuel - 1) ELSE <<>>
  IN IF n \notin Allocated \/ fuel = 0 THEN <<>>
     ELSE IF PageAt(n).type = NodeLeaf THEN <<n>>
     ELSE IF num > InternalNodeMaxCells \/ num < 0 THEN <<>>
     ELSE sub(0) \o sub(1) \o sub(2) \o sub(3)

TreeHeightFuel == 8
TreeLeafRefs == IF NumPagesNow = 0 THEN <<>> ELSE LeafRefs(0, TreeHeightFuel)
\* the first place of leaf n in the sequence refs
FirstRef(refs, n) == CHOOSE i \in 1 .. Len(refs) :
                        refs[i] = n /\ \A j \in 1 .. (i - 1) : refs[j] # n

\* chain visits exactly the leaves of refs, each once, in the order of their
\* (first) place in refs
ChainFollows(chain, refs) ==
  /\ Range(chain) = Range(refs)
  /\ \A i \in 1 .. Len(chain) : \A j \in 1 .. Len(chain) :
        i < j => /\ chain[i] # chain[j]
                 /\ FirstRef(refs, chain[i]) < FirstRef(refs, chain[j])

\* the chain visits exactly the leaves of the tree, each once, in the order
\* of their (first) place in the tree
ChainInTreeOrder == ChainFollows(LeafChain, TreeLeafRefs)

\* every leaf of leaves with a next leaf has it in leaves, and holds smaller
\* keys than it
NextLeafKeysLarger(leaves) ==
  \A n \in leaves :
     LET next == PageAt(n).link
     IN next # 0 =>
          /\ next \in leaves
          /\ \A k \in LeafKeys(n) : \A k2 \in LeafKeys(next) : k < k2

\* ------------------------------------------------------------------------
\* Claims
\* ------------------------------------------------------------------------

\* C1: after successful inserts with pairwise distinct keys, the traversal
\* from tableStart by advance visits the keys in strictly ascending order,
\* one row per successful insert, none missing and none repeated.
C1_SelectSortedOnePerInsert ==
  (lastOp = "select" /\ distinct)
    => /\ status = "open"
       /\ IsStrictlyAscending(out)
       /\ Len(out) = accepted
       /\ Range(out) = ins

\* C2: executeInsert of a key that is stored in some leaf returns
\* `duplicate key` and leaves every page and numPages unchanged, also when
\* the root is an internal node.
C2_DuplicateRejectedUnchanged ==
  [][(lastOp' = "insert" /\ wasStored')
       => /\ lastErr' = "duplicate key"
          /\ pager'.numPages = pager.numPages
          /\ \A n \in 0 .. (TableMaxPages - 1) : PageAt(n)' = PageAt(n)]_vars

\* C3: the separator key at position i of every reachable internal node
\* equals the largest key stored in the subtree of its child i.
C3_SeparatorIsSubtreeMax ==
  \A sl \in BodySlots :
     LET child == ChildAt(sl[1], sl[2])
     IN /\ child \in Allocated
        /\ SubtreeKeys(child) # {}
        /\ internalNodeKey(PageAt(sl[1]), sl[2]) = SetMax(SubtreeKeys(child))

\* C4: the parent pointer of every non-root reachable node is the page of the
\* internal node that lists it as a child (body cell or right child).
C4_ParentPointerIsLister ==
  \A sl \in Slots :
     LET child == ChildAt(sl[1], sl[2])
     IN child \in Allocated /\ child # 0 => PageAt(child).parent = sl[1]

\* C5: no key is stored in more than one leaf cell, whatever inserts were
\* issued (repeated keys included).
C5_KeysUnique ==
  \A a \in Cells : \A b \in Cells :
     a # b => PageAt(a[1]).lk[a[2]] # PageAt(b[1]).lk[b[2]]

\* C6: a select after dbClose and dbOpen of the same file yields the rows of
\* the select taken just before the close, in the same order.
C6_RoundTrip ==
  (lastOp = "select" /\ sessions > 1 /\ postIns = 0 /\ preClose # <<-1>>)
    => (status = "open" /\ out = preClose)

\* a select after reopening a file of several pages, with rows to show
C6_Witness ==
  /\ lastOp = "select" /\ sessions > 1 /\ postIns = 0 /\ preClose # <<-1>>
  /\ status = "open"
  /\ Len(file) >= 8
  /\ Len(out) >= 35
  /\ DOMAIN pager.pages # 0 .. (Len(file) - 1)

\* C7: an insert that needs a page number beyond tableMaxPages fails with
\* the error `table full` and the shell goes on; the process does not end.
C7_TableFullReported ==
  (lastOp = "insert" /\ lastErr \in {"table full", "page out of bounds"})
    => (lastErr = "table full" /\ status = "open")

\* C8: every reachable leaf has between 1 and 13 cells, except the root leaf
\* of a table with no rows (the root leaf is then the whole table), which
\* has 0.
C8_LeafCellCount ==
  \A n \in Leaves :
     \/ PageAt(n).num >= 1 /\ PageAt(n).num <= 13
     \/ n = 0 /\ PageAt(n).num = 0

\* leaves of 13 and of 7 cells under internal nodes below the root, and the
\* empty root leaf
C8_Witness ==
  /\ status = "open"
  /\ \E n \in Leaves : PageAt(n).num = LeafNodeMaxCells /\ PageAt(n).parent # 0
  /\ \E n \in Leaves : PageAt(n).num = LeafNodeLeftSplitCount
  /\ \E n \in Internals : n # 0

\* C9: exactly one allocated page has the is-root flag set, and it is page
\* 0; splits and createNewRoot neither move the flag nor clear it.
C9_SingleRootPageZero ==
  NumPagesNow > 0 => {n \in Allocated : isNodeRoot(PageAt(n))} = {0}

\* the root after it was split as a leaf and again as an internal node
C9_Witness ==
  /\ status = "open"
  /\ PageAt(0).type = NodeInternal
  /\ \E n \in Internals : n # 0 /\ PageAt(n).parent = 0
  /\ isNodeRoot(PageAt(0))

\* C10: the next-leaf chain from the leftmost leaf visits exactly the leaves
\* of the tree, in tree order, each once (so the last leaf of the tree ends
\* the chain with next-leaf 0); the keys of a leaf are smaller than the keys
\* of its next leaf; no leaf has page 0 as successor. Stated of the runs
\* whose inserts had pairwise distinct keys, where no stored duplicate can
\* be what breaks the key order.
C10_LeafChain ==
  distinct => ChainInTreeOrder /\ NextLeafKeysLarger(Leaves)

\* C11: the child slots of the reachable internal nodes (the k body cells
\* and the right child of a node with k keys) reference pairwise distinct
\* pages: no page is a child in two slots, of one node or of two.
C11_ChildSlotsDistinct ==
  \A a \in Slots : \A b \in Slots :
     a # b => ChildAt(a[1], a[2]) # ChildAt(b[1], b[2])


\* q without the entries equal to k
Without(q, k) == SelectSeq(q, LAMBDA x : x # k)

\* C12: executeDelete of a key that no leaf stores returns `key N does not
\* exist`; the process goes on, and numPages and the content of every page
\* (separators included) are as before.
C12_DeleteMissingUnchanged ==
  [][(lastOp' = "delete" /\ ~wasStored')
       => /\ lastErr' = "key does not exist"
          /\ status' = "open"
          /\ pager'.numPages = pager.numPages
          /\ \A n \in 0 .. (TableMaxPages - 1) : PageAt(n)' = PageAt(n)]_vars

\* a missing key was asked of a tree with internal nodes below the root
C12_Witness ==
  /\ lastOp = "delete" /\ ~wasStored /\ status = "open"
  /\ lastKey \notin {0, KeyModulus}
  /\ \E n \in Internals : n # 0

\* C13: executeDelete of a stored key returns nil and the process goes on,
\* whatever the size of the leaf (a leaf of one cell included); the
\* traversal afterwards yields the rows of the traversal before without the
\* deleted key, in ascending order.
C13_DeleteStored ==
  (lastOp = "delete" /\ wasStored)
    => /\ status = "open"
       /\ lastErr = "none"
       /\ delAfter = Without(delBefore, lastKey)
       /\ IsStrictlyAscending(delAfter)



\* the stored pages and numPages are the same before and after a step
TableUnchanged ==
  /\ pager'.numPages = pager.numPages
  /\ \A n \in 0 .. (TableMaxPages - 1) : PageAt(n)' = PageAt(n)

\* C14: an insert line whose username has at most 32 bytes and whose email
\* has at most 255 bytes is prepared and executed; one with a username of 33
\* bytes or an email of 256 bytes is answered with "string is too long", the
\* shell goes on, no page changes and a select emits the rows it emitted
\* before.
C14_InsertLengthLimits ==
  [][(lastOp' = "line" /\ lines' = lines + 1) =>
       /\ line'.text \in AcceptedInsertLines => line'.kind = "insert"
       /\ line'.text \in TooLongLines =>
            /\ line'.kind = "error"
            /\ lastErr' = "string is too long"
            /\ status' = "open"
            /\ TableUnchanged
            /\ SelectRows(executeSelect(Machine(pager')))
                 = SelectRows(executeSelect(Machine(pager)))]_vars

C14_Witness ==
  /\ lastOp = "line"
  /\ line.text = InsertLine(KeyModulus + 1, Name(UsernameSize), Name(EmailSize))
  /\ line.kind = "insert"
  /\ lastErr = "none"
  /\ (KeyModulus + 1) \in StoredKeys
  /\ \E n \in Internals : n # 0

\* C15: a non-empty line that does not begin with "." and is no valid
\* statement is answered with an error, the table is unchanged and the shell
\* goes on to the next prompt.
C15_InvalidLineReported ==
  [][(lastOp' = "line" /\ lines' = lines + 1 /\ line'.text \in InvalidLines) =>
       /\ status' = "open"
       /\ line'.kind = "error"
       /\ lastErr' # "none"
       /\ TableUnchanged]_vars


\* the n smallest and the n largest elements of a set of keys
Smallest(keys, n) == {k \in keys : Cardinality({j \in keys : j <= k}) <= n}
Largest(keys, n) == {k \in keys : Cardinality({j \in keys : j >= k}) <= n}

\* C16: an insert of a new key into a root leaf of 13 cells leaves page 0 an
\* internal root with 1 key, the largest key of the left leaf; the right
\* child is the page numbered numPages before the insert, the left child the
\* one after it; the left leaf holds the 7 smallest keys, the right leaf the
\* 7 largest; both have parent 0; numPages grew by 2.
C16_RootLeafSplit ==
  [][(/\ status = "open"
      /\ PageAt(0).type = NodeLeaf
      /\ PageAt(0).num = LeafNodeMaxCells
      /\ lastOp' = "insert"
      /\ lastKey' \notin LeafKeys(0)) =>
       \A right \in {pager.numPages} : \A left \in {pager.numPages + 1} :
       \A keys \in {LeafKeys(0) \cup {lastKey'}} :
         /\ status' = "open"
         /\ lastErr' = "none"
         /\ pager'.numPages = right + 2
         /\ PageAt(0)'.type = NodeInternal
         /\ PageAt(0)'.root = 1
         /\ PageAt(0)'.num = 1
         /\ internalNodeRightChild(PageAt(0)') = right
         /\ internalCellChild(PageAt(0)', 0) = left
         /\ PageAt(right)'.type = NodeLeaf
         /\ PageAt(left)'.type = NodeLeaf
         /\ PageAt(right)'.parent = 0
         /\ PageAt(left)'.parent = 0
         /\ PageAt(right)'.num = 7
         /\ PageAt(left)'.num = 7
         /\ LeafKeys(left)' = Smallest(keys, 7)
         /\ LeafKeys(right)' = Largest(keys, 7)
         /\ internalNodeKey(PageAt(0)', 0) = SetMax(LeafKeys(left)')]_vars

C16_Witness ==
  /\ lastOp = "insert"
  /\ step = LeafNodeMaxCells + 1
  /\ lastKey = LeafNodeMaxCells
  /\ status = "open"
  /\ PageAt(0).type = NodeInternal
  /\ LeafKeys(2) = {2 * i : i \in 1 .. 6} \cup {LeafNodeMaxCells}


\* C17: while the keys inserted are pairwise distinct, an insert ends the
\* process only when it needs the page numbered TableMaxPages (a sequence
\* the claim leaves out), and a displayTree walk from page 0 after the insert
\* completes.
C17_NoFatalPath ==
  [][(/\ status = "open"
      /\ lastOp' = "insert"
      /\ repeats' = 0
      /\ sessions = 1
      /\ distinct') =>
       \/ /\ status' = "open"
          /\ Ok(displayTree(Machine(pager'), 0, 0, TableMaxPages).s)
       \/ /\ status' = "exited"
          /\ lastErr' = "page out of bounds"
          /\ pager.numPages + TreeHeightFuel + 1 > TableMaxPages]_vars

C17_Witness ==
  /\ status = "open"
  /\ lastOp = "insert"
  /\ repeats = 0
  /\ sessions = 1
  /\ distinct
  /\ pager.numPages >= 40
  /\ \E n \in Internals : PageAt(n).parent # 0 /\ PageAt(n).type = NodeInternal
  /\ Len(displayTree(Machine(pager), 0, 0, TableMaxPages).v) > Cardinality(StoredKeys)


\* C18: a select that returns leaves numPages and the content of every page
\* as they were; the pages held may differ.
C18_SelectChangesNoPage ==
  [][(status = "open" /\ lastOp' = "select" /\ status' = "open") => TableUnchanged]_vars

\* a select in a second session: it loaded the leaves from the file
C18_Witness ==
  /\ lastOp = "select"
  /\ status = "open"
  /\ sessions > 1
  /\ Len(out) > 2 * LeafNodeMaxCells
  /\ Cardinality(DOMAIN pager.pages) > 3
  /\ \E n \in Internals : n # 0


\* C19: after dbOpen on a file of no pages, numPages is 1 and page 0 is a
\* leaf with the root flag and 0 cells; after dbOpen on a file of one page or
\* more, page 0 is the page stored in the file.
C19_OpenInitialisesEmptyOnly ==
  lastOp = "open" =>
    IF Len(file) = 0
    THEN /\ pager.numPages = 1
         /\ PageAt(0).type = NodeLeaf
         /\ PageAt(0).root = 1
         /\ PageAt(0).num = 0
    ELSE /\ PageAt(0) = file[1]
         /\ pager.numPages = Len(file)

\* a second session opened on a file whose page 0 is an internal root
C19_Witness ==
  /\ lastOp = "open"
  /\ sessions > 1
  /\ Len(file) >= 3
  /\ file[1].type = NodeInternal
  /\ file[1].num >= 1
  /\ PageAt(0) = file[1]


\* the cursor that tableFind returned is on a cell that holds key k
FindHolds(r, k) ==
  /\ Ok(r.s)
  /\ r.v.pageNum \in Leaves
  /\ r.v.cellNum < PageAt(r.v.pageNum).num
  /\ PageAt(r.v.pageNum).lk[r.v.cellNum] = k

\* the place of leaf n in the chain of leaves (0 if it is not in the chain)
ChainIndex(chain, n) ==
  IF \E j \in 1 .. Len(chain) : chain[j] = n
  THEN CHOOSE j \in 1 .. Len(chain) : chain[j] = n
  ELSE 0

\* the cursor that tableFind returned for a key k that is not stored is the
\* place of k in the order of the chain of leaves: the keys of the cells
\* before it are smaller, the keys from it on are larger
FindPlaces(r, k, chain) ==
  /\ Ok(r.s)
  /\ r.v.pageNum \in Leaves
  /\ r.v.cellNum <= PageAt(r.v.pageNum).num
  /\ ChainIndex(chain, r.v.pageNum) > 0
  /\ \A cell \in Cells :
       IF \/ cell[1] = r.v.pageNum /\ cell[2] < r.v.cellNum
          \/ /\ cell[1] # r.v.pageNum
             /\ ChainIndex(chain, cell[1]) < ChainIndex(chain, r.v.pageNum)
       THEN PageAt(cell[1]).lk[cell[2]] < k
       ELSE PageAt(cell[1]).lk[cell[2]] > k

\* keys looked up that may not be stored: below and above all keys, and keys
\* the workload inserts later
ProbeKeys ==
  {0, KeyModulus, KeyAt(mult, step), KeyAt(mult, step + 1), KeyAt(mult, step + 20),
   KeyAt(mult, step + 50)}

FindsAll(stored, chain) ==
  /\ \A k \in stored : FindHolds(tableFind(Machine(pager), k), k)
  /\ \A k \in ProbeKeys \ stored : FindPlaces(tableFind(Machine(pager), k), k, chain)

\* C20: in a tree built by inserts of pairwise distinct keys, tableFind of a
\* stored key returns the cell that holds it, and tableFind of a key that is
\* not stored returns the leaf and the cell where the key keeps the global
\* order.
C20_TableFindPlace == (status = "open" /\ distinct) => FindsAll(StoredKeys, LeafChain)


\* C21: an insert of a key that no leaf stores is never answered with
\* `duplicate key`.
C21_NewKeyNotDuplicate == (lastOp = "insert" /\ ~wasStored) => lastErr # "duplicate key"


\* the cells of leaf page n hold the keys in ascending order, each with the
\* row of its key
LeafCellsPaired(node) ==
  /\ \A i \in LeafCells : (i + 1 < node.num) => node.lk[i] < node.lk[i + 1]
  /\ \A i \in LeafCells : (i < node.num) =>
       leafNodeCell(node, i) = newLeafCell(node.lk[i], serializeRow(WorkloadRow(node.lk[i])))

\* C22: an insert of a new key into a leaf of 13 ascending cells leaves the 7
\* smallest of the 14 keys in the old leaf (its copy, if the leaf was the
\* root) and the 7 largest in the new leaf, the page numbered numPages before
\* the insert; both leaves are ascending and every cell holds the row of its
\* key.
C22_LeafSplitCells ==
  [][(/\ status = "open"
      /\ lastOp' = "insert"
      /\ lastErr' = "none"
      /\ lastKey' \notin StoredKeys) =>
       \A c \in {tableFind(Machine(pager), lastKey').v} :
       \A new \in {pager.numPages} :
       \A old \in {IF PageAt(c.pageNum).root = 1 THEN pager.numPages + 1 ELSE c.pageNum} :
       \A keys \in {LeafKeys(c.pageNum) \cup {lastKey'}} :
         (PageAt(c.pageNum).num = LeafNodeMaxCells /\ LeafCellsPaired(PageAt(c.pageNum))) =>
           /\ PageAt(old)'.type = NodeLeaf
           /\ PageAt(new)'.type = NodeLeaf
           /\ PageAt(old)'.num = 7
           /\ PageAt(new)'.num = 7
           /\ LeafKeys(old)' = Smallest(keys, 7)
           /\ LeafKeys(new)' = Largest(keys, 7)
           /\ LeafCellsPaired(PageAt(old)')
           /\ LeafCellsPaired(PageAt(new)')]_vars

\* the full right leaf of a two-leaf tree was split by a key below its keys
C22_Witness ==
  /\ lastOp = "insert"
  /\ lastErr = "none"
  /\ status = "open"
  /\ pager.numPages = 4
  /\ PageAt(0).num = 2
  /\ PageAt(1).num = 7
  /\ PageAt(3).num = 7
  /\ PageAt(1).lk[0] = lastKey


\* C23: an insert that splits an internal node (the tree has one internal
\* node more than before, and had one before) leaves every internal node
\* with its children listed once each: no page is in two of the num_keys
\* body cells and the right-child slot of a node.
C23_InternalSplitChildrenOnce ==
  [][(/\ status = "open"
      /\ lastOp' = "insert"
      /\ lastErr' = "none"
      /\ Internals # {}
      /\ Cardinality(Internals') > Cardinality(Internals)) =>
       \A p \in Internals' :
          \A i \in 0 .. InternalNodeMaxCells : \A j \in 0 .. InternalNodeMaxCells :
             (i < j /\ j <= PageAt(p)'.num) => ChildAt(p, i)' # ChildAt(p, j)']_vars


\* the separator of body slot sl is the largest key of the subtree of its child
SeparatorHolds(sl) ==
  /\ ChildAt(sl[1], sl[2]) \in Allocated
  /\ SubtreeKeys(ChildAt(sl[1], sl[2])) # {}
  /\ internalNodeKey(PageAt(sl[1]), sl[2]) = SetMax(SubtreeKeys(ChildAt(sl[1], sl[2])))

\* C24: a delete that removes the last cell of a leaf of two cells or more
\* leaves every separator that was the largest key of its child's subtree
\* equal to the largest key of that subtree, at every level.
C24_DeleteKeepsSeparators ==
  [][(/\ status = "open"
      /\ lastOp' = "delete"
      /\ lastErr' = "none"
      /\ status' = "open") =>
       \A c \in {tableFind(Machine(pager), lastKey').v} :
         (/\ PageAt(c.pageNum).num >= 2
          /\ c.cellNum = PageAt(c.pageNum).num - 1
          /\ PageAt(c.pageNum).lk[c.cellNum] = lastKey') =>
            \A sl \in BodySlots : SeparatorHolds(sl) => SeparatorHolds(sl)']_vars


\* the leaf of page n after the step has the fields of a leaf header it had
\* before, one cell more, and the keys it had with key added, ascending
LeafGainedKey(n, key) ==
  /\ PageAt(n)'.type = NodeLeaf
  /\ PageAt(n)'.root = PageAt(n).root
  /\ PageAt(n)'.parent = PageAt(n).parent
  /\ PageAt(n)'.link = PageAt(n).link
  /\ PageAt(n)'.num = PageAt(n).num + 1
  /\ LeafKeys(n)' = LeafKeys(n) \cup {key}
  /\ LeafCellsPaired(PageAt(n)')

C26_PagesAppendOnly ==
  [][(status = "open" /\ status' = "open") =>
       /\ pager'.numPages >= pager.numPages
       /\ (lastOp' = "delete") => pager'.numPages = pager.numPages
       /\ (lastOp' = "insert") =>
            /\ Reachable' = Reachable \cup (pager.numPages .. (pager'.numPages - 1))
            /\ \A n \in Reachable :
                  n # 0 => PageAt(n)'.type = PageAt(n).type
       /\ (lastOp' = "insert" /\ lastErr' = "none" /\ lastKey' \notin StoredKeys) =>
            \A c \in {tableFind(Machine(pager), lastKey').v} :
              (/\ PageAt(c.pageNum).num = LeafNodeMaxCells
               /\ PageAt(c.pageNum).root = 0
               /\ PageAt(PageAt(c.pageNum).parent).num < InternalNodeMaxCells) =>
                 pager'.numPages = pager.numPages + 1]_vars

\* a split of a non-root leaf under a root of one key added the fourth page
C26_Witness ==
  /\ lastOp = "insert"
  /\ lastErr = "none"
  /\ status = "open"
  /\ pager.numPages = 4
  /\ PageAt(0).type = NodeInternal
  /\ PageAt(0).num = 2
  /\ \E n \in Leaves : PageAt(n).num = LeafNodeRightSplitCount /\ lastKey \in LeafKeys(n)


\* the children of internal page p are in the order of their largest keys:
\* every separator is the largest key of its child's subtree, the separators
\* ascend, and the right child's largest key is above the last separator
ChildrenOrdered(p) ==
  /\ PageAt(p).type = NodeInternal
  /\ PageAt(p).num \in 1 .. InternalNodeMaxCells
  /\ \A i \in 0 .. (InternalNodeMaxCells - 1) :
        (i < PageAt(p).num) => SeparatorHolds(<<p, i>>)
  /\ \A i \in 0 .. (InternalNodeMaxCells - 2) :
        (i + 1 < PageAt(p).num) =>
           internalNodeKey(PageAt(p), i) < internalNodeKey(PageAt(p), i + 1)
  /\ PageAt(p).link \in Allocated
  /\ SubtreeKeys(PageAt(p).link) # {}
  /\ SetMax(SubtreeKeys(PageAt(p).link)) > internalNodeKey(PageAt(p), PageAt(p).num - 1)

\* body cell i of page p after the step is body cell j of before the step
\* (the separator of the leaf that was split apart, which is the largest key
\* the leaf has kept)
CellMoved(p, i, j, split) ==
  /\ ChildAt(p, i)' = ChildAt(p, j)
  /\ internalNodeKey(PageAt(p), i)' =
       IF ChildAt(p, j) = split THEN SetMax(LeafKeys(split)')
       ELSE internalNodeKey(PageAt(p), j)

Separators == {internalNodeKey(PageAt(0), i) : i \in {j \in 0 .. (InternalNodeMaxCells - 1) : j < PageAt(0).num}}

\* page 0 with key in every separator slot from its num_keys on
WithStale(key) ==
  [PageAt(0) EXCEPT !.lv[0] = IF PageAt(0).num = 0 THEN key ELSE @,
                    !.ik = [j \in InternalCells |-> IF j >= PageAt(0).num THEN key ELSE @[j]]]

\* C28: for an internal node of ascending separators, internalNodeFindChild
\* returns the smallest index below num_keys whose separator is at least the
\* key, and num_keys when every separator is smaller; the result does not
\* depend on what the slots from num_keys on hold.
C28_FindChildIndex ==
  (/\ lastOp = "internalNodeFindChild"
   /\ \A i \in 0 .. (InternalNodeMaxCells - 2) :
         (i + 1 < PageAt(0).num) =>
            internalNodeKey(PageAt(0), i) < internalNodeKey(PageAt(0), i + 1)) =>
     /\ out[1] \in 0 .. PageAt(0).num
     /\ out[1] < PageAt(0).num => internalNodeKey(PageAt(0), out[1]) >= lastKey
     /\ \A i \in 0 .. (InternalNodeMaxCells - 1) :
           (i < out[1]) => internalNodeKey(PageAt(0), i) < lastKey
     /\ \A key \in FindProbes : internalNodeFindChild(WithStale(key), lastKey) = out[1]

\* a key between the first and the second of three separators is sent to
\* child 1, whose separator it is not
C28_Witness ==
  /\ lastOp = "internalNodeFindChild"
  /\ PageAt(0).num = InternalNodeMaxCells
  /\ out = <<1>>
  /\ lastKey \notin Separators
  /\ internalNodeKey(PageAt(0), 0) < lastKey
  /\ lastKey < internalNodeKey(PageAt(0), 1)

\* C29: for a leaf of strictly ascending keys, leafNodeFind returns the cell
\* of the key when the leaf stores it, otherwise the first cell with a larger
\* key, or num_cells when there is none (0 for the empty leaf).
C29_LeafFindIndex ==
  (/\ lastOp = "leafNodeFind"
   /\ \A i \in LeafCells : (i + 1 < PageAt(0).num) => PageAt(0).lk[i] < PageAt(0).lk[i + 1]) =>
     /\ out[1] \in 0 .. PageAt(0).num
     /\ (lastKey \in LeafKeys(0)) => PageAt(0).lk[out[1]] = lastKey
     /\ (lastKey \notin LeafKeys(0)) =>
          /\ out[1] < PageAt(0).num => PageAt(0).lk[out[1]] > lastKey
          /\ \A i \in LeafCells : (i < out[1]) => PageAt(0).lk[i] < lastKey
     /\ PageAt(0).num = 0 => out[1] = 0

\* a key the full leaf does not store, between its cells 6 and 7
C29_Witness ==
  /\ lastOp = "leafNodeFind"
  /\ PageAt(0).num = LeafNodeMaxCells
  /\ lastKey \notin LeafKeys(0)
  /\ out = <<LeafNodeLeftSplitCount>>


\* the next-leaf chain from the leftmost leaf visits no leaf twice and ends
\* at a leaf without a next leaf
ChainEnds ==
  \A chain \in {LeafChain} :
     /\ \A i \in 1 .. Len(chain) : \A j \in 1 .. Len(chain) : i < j => chain[i] # chain[j]
     /\ Len(chain) > 0
     /\ PageAt(chain[Len(chain)]).link = 0

\* C30: a select on a tree built by inserts and deletes comes to its end:
\* the next-leaf chain it walks has no cycle, and once the select has
\* started its cursor eventually has end_of_table set.
C30_SelectTerminates ==
  /\ [](status = "open" => ChainEnds)
  /\ (lastOp = "select") ~> (lastOp = "select" /\ status = "open" /\ selectCursor.endOfTable)

\* a select after a delete has walked a tree with an internal node below the
\* root to the end of its last leaf
C30_Witness ==
  /\ lastOp = "select"
  /\ status = "open"
  /\ deletes > 0
  /\ selectCursor.endOfTable
  /\ selectCursor.pageNum = LeafChain[Len(LeafChain)]
  /\ Len(LeafChain) > InternalNodeMaxCells + 1
  /\ \E n \in Internals : n # 0


\* C31: tableStart returns a cursor on cell 0 of the leftmost leaf, a cell
\* that holds the smallest key of the tree when the tree holds a key;
\* end_of_table is set exactly when no leaf holds a key.
C31_TableStartSmallest ==
  status = "open" =>
    \A start \in {tableStart(Machine(pager))} :
       /\ Ok(start.s)
       /\ start.v.pageNum = Leftmost(0, TableMaxPages)
       /\ start.v.cellNum = 0
       /\ start.v.endOfTable = (StoredKeys = {})
       /\ StoredKeys # {} =>
            /\ PageAt(start.v.pageNum).num > 0
            /\ \A k \in StoredKeys : PageAt(start.v.pageNum).lk[0] <= k

\* the numbers of internal nodes on the paths from page n down to a leaf (-1
\* for a path that leaves the allocated pages or is longer than fuel)
RECURSIVE LeafDepths(_, _)
LeafDepths(n, fuel) ==
  IF n \notin Allocated \/ fuel = 0 THEN {-1}
  ELSE IF PageAt(n).type = NodeLeaf THEN {0}
  ELSE IF PageAt(n).num > InternalNodeMaxCells \/ PageAt(n).num < 0 THEN {-1}
  ELSE UNION {{IF d < 0 THEN d ELSE d + 1 : d \in LeafDepths(ChildAt(n, i), fuel - 1)} :
                i \in 0 .. PageAt(n).num}

\* C32: every path from the root to a leaf has the same number of internal
\* nodes.
C32_LeavesSameDepth ==
  status = "open" =>
    \A depths \in {LeafDepths(0, TreeHeightFuel)} :
       Cardinality(depths) = 1 /\ -1 \notin depths

\* a tree whose leaves are all two internal nodes below the top
C32_Witness ==
  /\ status = "open"
  /\ lastOp = "insert"
  /\ LeafDepths(0, TreeHeightFuel) = {2}
  /\ Cardinality(Internals) > InternalNodeMaxCells


\* C33: every internal node of the tree has between 1 and 3 keys, and its
\* right child is an allocated page other than page 0 (so not the invalid
\* page number either).
C33_InternalNodeShape ==
  status = "open" =>
    \A n \in Internals :
       /\ PageAt(n).num >= 1
       /\ PageAt(n).num <= InternalNodeMaxCells
       /\ internalNodeRightChild(PageAt(n)) # InvalidPageNum
       /\ internalNodeRightChild(PageAt(n)) # 0
       /\ internalNodeRightChild(PageAt(n)) \in Allocated

\* an internal node below the root has 3 keys, and the root has 2 or more
C33_Witness ==
  /\ status = "open"
  /\ lastOp = "insert"
  /\ PageAt(0).type = NodeInternal
  /\ PageAt(0).num >= 2
  /\ \E n \in Internals : n # 0 /\ PageAt(n).num = InternalNodeMaxCells


\* C34: an insert, a select or a delete, one that ends in an error or ends
\* the process included, leaves the file as it is; after dbClose the file
\* holds every page the pager held below numPages, as the pager held it, and
\* its other pages as before.
C34_FileWrittenByClose ==
  [][/\ (lastOp' \in {"insert", "select", "delete"}) => file' = file
     /\ (lastOp' = "close") =>
          \A n \in 0 .. (TableMaxPages - 1) :
             /\ (n \in DOMAIN pager.pages /\ n < pager.numPages) =>
                  (n < Len(file') /\ file'[n + 1] = pager.pages[n])
             /\ (n \notin DOMAIN pager.pages /\ n < Len(file)) =>
                  (n < Len(file') /\ file'[n + 1] = file[n + 1])]_vars

\* the file of a tree with internal nodes, closed after a delete
C34_Witness ==
  /\ lastOp = "close"
  /\ status = "closed"
  /\ deletes > 0
  /\ Len(file) > InternalNodeMaxCells + 2
  /\ file[1].type = NodeInternal
  /\ file[1].root = 1


\* C35: dbOpen (pagerOpen) of a file whose size is no whole multiple of
\* PageSize ends the process with the corruption message, with no page in
\* the pager's slot table, and leaves the file and its size as they were.
C35_RaggedFileFatal ==
  [][(lastOp' = "open" /\ sessions' = sessions + 1 /\ FileSize(file) % PageSize # 0) =>
       \A opened \in {dbOpen(file)} :
          /\ opened.fatal = "Db file is not a whole number of pages. Corrupt file."
          /\ DOMAIN opened.pages = {}
          /\ status' = "exited"
          /\ lastErr' = opened.fatal
          /\ file' = file
          /\ fileTail' = fileTail]_vars

\* a file of two pages and a cut page was opened and the process ended
C35_Witness ==
  /\ lastOp = "open"
  /\ status = "exited"
  /\ Len(file) = 2
  /\ fileTail = PageSize \div (MaxTailCuts + 1)
  /\ lastErr = "Db file is not a whole number of pages. Corrupt file."


\* C36: every updateInternalNodeKey call of an insert has oldKey equal to a
\* separator of the node, so the key slot it writes has an index below the
\* node's num_keys.
C36_UpdateKeyOnSeparator ==
  [][(status = "open" /\ lastOp' = "insert") =>
       \A r \in {executeInsert(Machine(pager), serializeRow(WorkloadRow(lastKey')))} :
          \A call \in r.s.keyWrites :
             /\ call.index < call.numKeys
             /\ call.slotKey = call.oldKey]_vars

====
